---- MODULE Spec2Model ----
(***************************************************************************)
(* Block-cipher toolkit (prelim2): block ciphers, padding strategies and   *)
(* the streaming modes of operation, modelled as state machines.           *)
(*                                                                         *)
(* Byte strings are sequences of 0..255.  A Python generator is a record   *)
(* holding its suspended position and locals; one Step is one next().      *)
(***************************************************************************)
EXTENDS Integers, Sequences, FiniteSets, TLC

VARIABLES
    padding,    \* PaddingMode member -> block_size of its strategy object
    modes,      \* the mode-of-operation instances constructed so far
    gens,       \* the encrypt / decrypt generators obtained so far
    instances,  \* the Clefia instances constructed so far
    rk, wk,     \* raw_cipher/clefia.py: round keys and whitening keys
    nr, nrk,    \* raw_cipher/clefia.py: rounds and round keys in use
    calls       \* the single-block encrypt / decrypt calls made so far

modeVars == <<padding, modes, gens>>
cipherVars == <<instances, rk, wk, nr, nrk, calls>>
vars == <<padding, modes, gens, instances, rk, wk, nr, nrk, calls>>

(***************************************************************************)
(* Bounds of the model.                                                    *)
(***************************************************************************)
MaxModes == 2
MaxGens == 2
MaxLen == 4
MaxInstances == 2
MaxBlocks == 2

(***************************************************************************)
(* Values.                                                                 *)
(***************************************************************************)
\* Python's None where a block is expected, and a raised exception.
None == <<-1>>
Raise == <<-2>>
\* PaddingStrategy._block_size before any mode has set it (None).
NoSize == -1

Min(a, b) == IF a < b THEN a ELSE b

\* data[lo:hi] of Python, 0-based, for 0 <= lo.
Slice(s, lo, hi) ==
    LET h == Min(hi, Len(s))
    IN  IF lo >= h THEN <<>> ELSE [i \in 1..(h - lo) |-> s[lo + i]]

\* bytes * n
RECURSIVE Repeat(_, _)
Repeat(s, n) == IF n <= 0 THEN <<>> ELSE s \o Repeat(s, n - 1)

RECURSIVE Flatten(_)
Flatten(blocks) ==
    IF blocks = <<>> THEN <<>> ELSE Head(blocks) \o Flatten(Tail(blocks))

\* a ^ b on two non-negative integers, bit by bit.
RECURSIVE XorInt(_, _)
XorInt(a, b) ==
    IF a = 0 THEN b
    ELSE IF b = 0 THEN a
    ELSE ((a + b) % 2) + 2 * XorInt(a \div 2, b \div 2)

\* a ^ b on two bytes: by half-bytes, from a table computed once.
XorNibble == [a \in 0..15 |-> [b \in 0..15 |-> XorInt(a, b)]]
XorByte(a, b) ==
    16 * XorNibble[a \div 16][b \div 16] + XorNibble[a % 16][b % 16]

\* int.from_bytes(b, byteorder='big')
RECURSIVE FromBytes(_)
FromBytes(b) ==
    IF b = <<>> THEN 0
    ELSE 256 * FromBytes(SubSeq(b, 1, Len(b) - 1)) + b[Len(b)]

\* v.to_bytes(n, byteorder='big'), for v < 256^n
RECURSIVE ToBytes(_, _)
ToBytes(v, n) ==
    IF n = 0 THEN <<>> ELSE ToBytes(v \div 256, n - 1) \o <<v % 256>>

RECURSIVE Pow2(_)
Pow2(n) == IF n = 0 THEN 1 ELSE 2 * Pow2(n - 1)

(***************************************************************************)
(* modes/utils.py                                                          *)
(***************************************************************************)
\* xor: result = bytearray(block_a); result[index] ^= byte for each byte of
\* block_b.  A longer block_b indexes past the end (IndexError); a shorter
\* one leaves the tail of block_a as it is.
xor(block_a, block_b) ==
    IF Len(block_b) > Len(block_a) THEN Raise
    ELSE [i \in 1..Len(block_a) |->
            IF i <= Len(block_b) THEN XorByte(block_a[i], block_b[i])
            ELSE block_a[i]]

\* block_generator: data[k : k + byte_block_size] for k in range(0, len, size).
RECURSIVE block_generator(_, _)
block_generator(data, block_size) ==
    LET byte_block_size == block_size \div 8
    IN  IF data = <<>> THEN <<>>
        ELSE <<Slice(data, 0, byte_block_size)>>
             \o block_generator(Slice(data, byte_block_size, Len(data)), block_size)

(***************************************************************************)
(* The block cipher a mode is built over (cipher/core.py BlockCipher) is   *)
(* supplied by the caller.  The modes are exercised with a family of small *)
(* invertible ciphers: BLOCK_SIZE bits wide, rejecting any other width (as *)
(* DES and Clefia do), a byte rotation followed by a keyed affine map of   *)
(* every byte.  encrypt is neither the identity nor an involution.         *)
(***************************************************************************)
CipherEncrypt(cipher, block) ==
    LET n == Len(block)
    IN  IF block = Raise \/ n * 8 # cipher.BLOCK_SIZE THEN Raise
        ELSE [i \in 1..n |-> (5 * block[(i % n) + 1] + cipher.key + i) % 256]

CipherDecrypt(cipher, block) ==
    LET n == Len(block)
        src(j) == ((j + n - 2) % n) + 1
    IN  IF block = Raise \/ n * 8 # cipher.BLOCK_SIZE THEN Raise
        ELSE [j \in 1..n |->
                (205 * (block[src(j)] + 512 - cipher.key - src(j))) % 256]

(***************************************************************************)
(* modes/padding: the padding strategies, as generators.                   *)
(*                                                                         *)
(* A pad / unpad generator is suspended at one of:                         *)
(*   "init"  not started,                                                  *)
(*   "loop"  after `yield block`, with the look-ahead block held,          *)
(*   "tail"  after `yield block` of a full final block, pad_block pending, *)
(*   "last"  after its final yield,                                        *)
(*   "done"  returned or raised.                                           *)
(* A step returns what next() returns: res is "yield" (with item), "stop"  *)
(* (StopIteration) or "raise".                                             *)
(***************************************************************************)
NoItem == [original |-> None, padded |-> None]
PadInit == [pc |-> "init", block |-> None]
PadDone == [pc |-> "done", block |-> None]

\* next(plaintext, None) on the block iterator.
PullBlock(src) == IF src = <<>> THEN None ELSE Head(src)
\* An iterator drained by its first next().
AdvanceToEnd(src) == <<>>
Advance(src) == IF src = <<>> THEN <<>> ELSE Tail(src)

PadResult(res, item, ps, src) == [res |-> res, item |-> item, ps |-> ps, src |-> src]

\* chr(n).encode(): one byte below 128, two UTF-8 bytes from 128 on.
PadByte(n) == IF n < 128 THEN <<n>> ELSE <<192 + (n \div 64), 128 + (n % 64)>>

\* PadPKCS7.pad, the body of `while True` with `block` held.
PKCS7PadLoop(block_size, block, src) ==
    LET next_block == PullBlock(src)
        rest == Advance(src)
        width == block_size \div 8
        short == width - Len(block)
        bytes_to_pad == IF short = 0 THEN short + width ELSE short
        pad_block == Repeat(PadByte(bytes_to_pad), bytes_to_pad)
    IN  IF next_block = None
        THEN IF block = None \/ bytes_to_pad < 0
             THEN \* len(None) is a TypeError, chr(negative) a ValueError
                  PadResult("raise", NoItem, PadDone, rest)
             ELSE IF bytes_to_pad = width
             THEN PadResult("yield", [original |-> block, padded |-> block],
                            [pc |-> "tail", block |-> pad_block], rest)
             ELSE PadResult("yield", [original |-> block, padded |-> block \o pad_block],
                            [pc |-> "last", block |-> None], rest)
        ELSE PadResult("yield", [original |-> block, padded |-> block],
                       [pc |-> "loop", block |-> next_block], rest)

PKCS7Pad(block_size, ps, src) ==
    CASE ps.pc = "init" ->
            IF block_size = NoSize THEN PadResult("raise", NoItem, PadDone, src)
            ELSE PKCS7PadLoop(block_size, PullBlock(src), Advance(src))
      [] ps.pc = "loop" -> PKCS7PadLoop(block_size, ps.block, src)
      [] ps.pc = "tail" ->
            PadResult("yield", [original |-> <<>>, padded |-> ps.block],
                      [pc |-> "last", block |-> None], src)
      [] OTHER -> PadResult("stop", NoItem, PadDone, src)

\* PadZeros.pad: the same loop with zero bytes.
ZerosPadLoop(block_size, block, src) ==
    LET next_block == PullBlock(src)
        rest == Advance(src)
        width == block_size \div 8
        short == width - Len(block)
        zeros_to_pad == IF short = 0 THEN short + width ELSE short
        pad_block == Repeat(<<0>>, zeros_to_pad)
    IN  IF next_block = None
        THEN IF block = None
             THEN PadResult("raise", NoItem, PadDone, rest)
             ELSE IF zeros_to_pad = width
             THEN PadResult("yield", [original |-> block, padded |-> block],
                            [pc |-> "tail", block |-> pad_block], rest)
             ELSE PadResult("yield", [original |-> block, padded |-> block \o pad_block],
                            [pc |-> "last", block |-> None], rest)
        ELSE PadResult("yield", [original |-> block, padded |-> block],
                       [pc |-> "loop", block |-> next_block], rest)

ZerosPad(block_size, ps, src) ==
    CASE ps.pc = "init" ->
            IF block_size = NoSize THEN PadResult("raise", NoItem, PadDone, src)
            ELSE ZerosPadLoop(block_size, PullBlock(src), Advance(src))
      [] ps.pc = "loop" -> ZerosPadLoop(block_size, ps.block, src)
      [] ps.pc = "tail" ->
            PadResult("yield", [original |-> <<>>, padded |-> ps.block],
                      [pc |-> "last", block |-> None], src)
      [] OTHER -> PadResult("stop", NoItem, PadDone, src)

\* PadNone.pad: the iterator itself (debug: each block as original and padded).
NonePad(ps, src) ==
    IF src = <<>> THEN PadResult("stop", NoItem, PadDone, src)
    ELSE PadResult("yield", [original |-> Head(src), padded |-> Head(src)],
                   [pc |-> "loop", block |-> None], Tail(src))

\* PaddingMode.pad: delegates to the member's strategy object, whose
\* block_size is whatever was last assigned to it.
PadStep(padding_mode, block_size, ps, src) ==
    CASE padding_mode = "PAD_PKCS7" -> PKCS7Pad(block_size, ps, src)
      [] padding_mode = "PAD_ZEROS" -> ZerosPad(block_size, ps, src)
      [] OTHER -> NonePad(ps, src)

(***************************************************************************)
(* modes/ecb.py, cbc.py, cfb.py, ctr.py: what each mode does to one block. *)
(* `self` is the mode instance, `last` the local feedback value of the     *)
(* running call (last_ciphertext_block / last_IV).  The result carries the *)
(* block produced, the debug fields, the feedback value for the next block *)
(* and the instance as the code leaves it.                                 *)
(***************************************************************************)
BlockResult(data, IV, E_IV, last, self) ==
    [data |-> data, IV |-> IV, E_IV |-> E_IV, last |-> last, self |-> self]

\* A counter whose increment does not carry out of its last byte.
NextCounterNoCarry(self, last_IV) ==
    [i \in 1..Len(last_IV) |-> IF i = Len(last_IV) THEN (last_IV[i] + 1) % 256 ELSE last_IV[i]]

\* (IV_bits + 1) & ((1 << block_size) - 1), as block_size >> 3 bytes.
NextCounter(self, last_IV) ==
    ToBytes((FromBytes(last_IV) + 1) % Pow2(self.block_size), self.block_size \div 8)

ECBEncryptBlock(self, last, plaintext_block) ==
    BlockResult(CipherEncrypt(self.cipher, plaintext_block), None, None, last, self)

ECBDecryptBlock(self, last, ciphertext_block) ==
    BlockResult(CipherDecrypt(self.cipher, ciphertext_block), None, None, last, self)

\* A CBC encrypt that keeps its chaining value on the instance.
CBCEncryptBlockCached(self, last_ciphertext_block, plaintext_block) ==
    BlockResult(CipherEncrypt(self.cipher, xor(plaintext_block, last_ciphertext_block)),
                last_ciphertext_block, None,
                CipherEncrypt(self.cipher, xor(plaintext_block, last_ciphertext_block)),
                [self EXCEPT !.IV = CipherEncrypt(self.cipher,
                                                  xor(plaintext_block, last_ciphertext_block))])

CBCEncryptBlock(self, last_ciphertext_block, plaintext_block) ==
    LET mixed == xor(plaintext_block, last_ciphertext_block)
        ciphertext_block == CipherEncrypt(self.cipher, mixed)
    IN  BlockResult(ciphertext_block, last_ciphertext_block, None, ciphertext_block, self)

\* A CBC decrypt that chains the recovered plaintext block.
CBCDecryptBlockPlainChain(self, last_ciphertext_block, ciphertext_block) ==
    BlockResult(xor(CipherDecrypt(self.cipher, ciphertext_block), last_ciphertext_block),
                last_ciphertext_block, None,
                xor(CipherDecrypt(self.cipher, ciphertext_block), last_ciphertext_block),
                self)

CBCDecryptBlock(self, last_ciphertext_block, ciphertext_block) ==
    LET decrypted == CipherDecrypt(self.cipher, ciphertext_block)
        plaintext_block ==
            IF decrypted = Raise THEN Raise ELSE xor(decrypted, last_ciphertext_block)
    IN  BlockResult(plaintext_block, last_ciphertext_block, None, ciphertext_block, self)

\* A CFB encrypt whose next register is the ciphertext segment alone.
CFBEncryptBlockNoShift(self, last_IV, plaintext_segment) ==
    BlockResult(xor(plaintext_segment,
                    Slice(CipherEncrypt(self.cipher, last_IV), 0, Len(plaintext_segment))),
                last_IV, CipherEncrypt(self.cipher, last_IV),
                xor(plaintext_segment,
                    Slice(CipherEncrypt(self.cipher, last_IV), 0, Len(plaintext_segment))),
                self)

CFBEncryptBlock(self, last_IV, plaintext_segment) ==
    LET encrypted_IV == CipherEncrypt(self.cipher, last_IV)
        IV_msb == Slice(encrypted_IV, 0, Len(plaintext_segment))
        ciphertext_segment ==
            IF encrypted_IV = Raise THEN Raise ELSE xor(plaintext_segment, IV_msb)
    IN  BlockResult(ciphertext_segment, last_IV, encrypted_IV,
                    Slice(last_IV, Len(plaintext_segment), Len(last_IV)) \o ciphertext_segment,
                    self)

CFBDecryptBlock(self, last_IV, ciphertext_segment) ==
    LET encrypted_IV == CipherEncrypt(self.cipher, last_IV)
        IV_msb == Slice(encrypted_IV, 0, Len(ciphertext_segment))
        plaintext_segment ==
            IF encrypted_IV = Raise THEN Raise ELSE xor(ciphertext_segment, IV_msb)
    IN  BlockResult(plaintext_segment, last_IV, encrypted_IV,
                    Slice(last_IV, Len(plaintext_segment), Len(last_IV)) \o ciphertext_segment,
                    self)

\* A CTR encrypt whose next counter is taken from the ciphertext block.
CTREncryptBlockFeedback(self, last_IV, plaintext_block) ==
    BlockResult(xor(plaintext_block, CipherEncrypt(self.cipher, last_IV)),
                last_IV, CipherEncrypt(self.cipher, last_IV),
                NextCounter(self, xor(plaintext_block, CipherEncrypt(self.cipher, last_IV))),
                self)

CTREncryptBlock(self, last_IV, plaintext_block) ==
    LET encrypted_IV == CipherEncrypt(self.cipher, last_IV)
        ciphertext_block ==
            IF encrypted_IV = Raise THEN Raise ELSE xor(plaintext_block, encrypted_IV)
    IN  BlockResult(ciphertext_block, last_IV, encrypted_IV, NextCounter(self, last_IV), self)

CTRDecryptBlock(self, last_IV, ciphertext_block) ==
    LET encrypted_IV == CipherEncrypt(self.cipher, last_IV)
        plaintext_block ==
            IF encrypted_IV = Raise THEN Raise ELSE xor(ciphertext_block, encrypted_IV)
    IN  BlockResult(plaintext_block, last_IV, encrypted_IV, NextCounter(self, last_IV), self)

EncryptBlock(self, last, block) ==
    CASE self.kind = "ECB" -> ECBEncryptBlock(self, last, block)
      [] self.kind = "CBC" -> CBCEncryptBlock(self, last, block)
      [] self.kind = "CFB" -> CFBEncryptBlock(self, last, block)
      [] OTHER -> CTREncryptBlock(self, last, block)

DecryptBlock(self, last, block) ==
    CASE self.kind = "ECB" -> ECBDecryptBlock(self, last, block)
      [] self.kind = "CBC" -> CBCDecryptBlock(self, last, block)
      [] self.kind = "CFB" -> CFBDecryptBlock(self, last, block)
      [] OTHER -> CTRDecryptBlock(self, last, block)

\* `last_ciphertext_block = self.IV` / `last_IV = self.IV` when a call starts.
InitialFeedback(self) == IF self.kind = "ECB" THEN None ELSE self.IV

(***************************************************************************)
(* Mode.encrypt: a generator over PaddingMode.pad(plaintext).  One next()  *)
(* resumes the pad generator once and transforms the block it yields.      *)
(*                                                                         *)
(* A generator record:                                                     *)
(*   mode, op, debug   the call: mode instance (index), "encrypt" or       *)
(*                     "decrypt", the debug flag                           *)
(*   data, of          the bytes the call was given; for a decrypt of an   *)
(*                     earlier encrypt's output, that generator's index    *)
(*   src               the block iterator's remaining blocks              *)
(*   pc                "new", "open" (suspended at a yield), "done"        *)
(*                     (exhausted) or "raised"                             *)
(*   pad               the pad / unpad generator's position                *)
(*   last              the local feedback value, None before the start     *)
(*   trace             per block, the fields of the debug dictionaries     *)
(*   out               the blocks yielded: 'encrypted' / 'unpadded'       *)
(***************************************************************************)
StepResult(gen, self) == [gen |-> gen, self |-> self]

Finish(g, pc, pad, src) == [g EXCEPT !.pc = pc, !.pad = pad, !.src = src]

\* The loop body of Mode.encrypt for the padded block `p.item`, `b` being
\* what the mode makes of it.
EncryptYield(g, p, b) ==
    IF b.data = Raise
    THEN StepResult(Finish(g, "raised", PadDone, p.src), b.self)
    ELSE StepResult(
            [g EXCEPT !.pc = "open", !.pad = p.ps, !.src = p.src,
                      !.last = b.last,
                      !.trace = @ \o <<[original |-> p.item.original,
                                        padded |-> p.item.padded,
                                        IV |-> b.IV, E_IV |-> b.E_IV,
                                        encrypted |-> b.data]>>,
                      !.out = @ \o <<b.data>>],
            b.self)

\* `for block_data in plaintext:` with p the pad generator's answer.
EncryptPulled(self, last, g, p) ==
    CASE p.res = "stop" -> StepResult(Finish(g, "done", p.ps, p.src), self)
      [] p.res = "raise" -> StepResult(Finish(g, "raised", p.ps, p.src), self)
      [] OTHER -> EncryptYield(g, p, EncryptBlock(self, last, p.item.padded))

\* An encrypt that reads its feedback value from the instance and writes the
\* new one back to it.
CacheOnSelf(r) == StepResult(r.gen, [r.self EXCEPT !.IV = r.gen.last])

EncryptStepCached(self, pad_block_size, g) ==
    CacheOnSelf(EncryptPulled(self, InitialFeedback(self), g,
                              PadStep(self.padding_mode, pad_block_size, g.pad, g.src)))

EncryptStep(self, pad_block_size, g) ==
    EncryptPulled(self, IF g.pc = "new" THEN InitialFeedback(self) ELSE g.last, g,
                  PadStep(self.padding_mode, pad_block_size, g.pad, g.src))

(***************************************************************************)
(* Mode.decrypt: PaddingMode.unpad over the inner plaintext_generator().   *)
(***************************************************************************)
NoBlock == [encrypted |-> None, decrypted |-> None, IV |-> None, E_IV |-> None]

PullResult(res, item, last, src, self) ==
    [res |-> res, item |-> item, last |-> last, src |-> src, self |-> self]

PlaintextYield(self, last, src, b) ==
    IF b.data = Raise
    THEN PullResult("raise", NoBlock, last, Tail(src), self)
    ELSE PullResult("yield",
                    [encrypted |-> Head(src), decrypted |-> b.data,
                     IV |-> b.IV, E_IV |-> b.E_IV],
                    b.last, Tail(src), b.self)

\* next(plaintext_generator, None): decrypts the next ciphertext block.
PlaintextPull(self, last, src) ==
    IF src = <<>> THEN PullResult("stop", NoBlock, last, src, self)
    ELSE PlaintextYield(self, last, src, DecryptBlock(self, last, Head(src)))

UnpadResult(res, unpadded, ps, pull, pulled) ==
    [res |-> res, unpadded |-> unpadded, ps |-> ps,
     last |-> pull.last, src |-> pull.src, self |-> pull.self, pulled |-> pulled]

\* block[:-pad_byte]
StripLast(block, pad_byte) ==
    IF pad_byte = 0 THEN <<>> ELSE Slice(block, 0, Len(block) - pad_byte)

\* block.rstrip(b'\0')
RECURSIVE RStripZeros(_)
RStripZeros(block) ==
    IF block # <<>> /\ block[Len(block)] = 0
    THEN RStripZeros(SubSeq(block, 1, Len(block) - 1))
    ELSE block

\* What the final block becomes, per strategy: a block to yield, Raise, or
\* None when the generator ends without yielding it.
PKCS7UnpadLast(block_size, debug, block) ==
    IF block = None \/ block = <<>> THEN Raise
    ELSE IF block[Len(block)] < block_size \div 8
         THEN StripLast(block, block[Len(block)])
         ELSE None

ZerosUnpadLast(block_size, debug, block) ==
    IF block = None THEN Raise
    ELSE IF debug THEN None
    ELSE RStripZeros(block)

UnpadLast(padding_mode, block_size, debug, block) ==
    IF padding_mode = "PAD_PKCS7" THEN PKCS7UnpadLast(block_size, debug, block)
    ELSE ZerosUnpadLast(block_size, debug, block)

Pulled(pull) == IF pull.res = "yield" THEN <<pull.item>> ELSE <<>>

\* `if next_block is None:` of PadPKCS7.unpad / PadZeros.unpad, `final`
\* being what the strategy makes of the last block.
UnpadFinal(final, pull, seen) ==
    IF final = Raise THEN UnpadResult("raise", None, PadDone, pull, seen)
    ELSE IF final = None THEN UnpadResult("stop", None, PadDone, pull, seen)
    ELSE UnpadResult("yield", final, [pc |-> "last", block |-> None], pull, seen)

\* The body of `while True` of PadPKCS7.unpad / PadZeros.unpad with `block`
\* held and `pull` the answer to next(plaintext, None); `first` is the pull
\* that filled `block` in this same step, if any.
UnpadLoop(padding_mode, block_size, debug, block, first, pull) ==
    CASE pull.res = "raise" ->
            UnpadResult("raise", None, PadDone, pull, first)
      [] pull.res = "yield" ->
            UnpadResult("yield", block, [pc |-> "loop", block |-> pull.item.decrypted],
                        pull, first \o <<pull.item>>)
      [] OTHER ->
            UnpadFinal(UnpadLast(padding_mode, block_size, debug, block), pull, first)

\* `block = next(plaintext, None)` and then the loop.
UnpadFirst(self, pad_block_size, debug, one) ==
    IF one.res = "raise" THEN UnpadResult("raise", None, PadDone, one, <<>>)
    ELSE UnpadLoop(self.padding_mode, pad_block_size, debug, one.item.decrypted,
                   Pulled(one), PlaintextPull(one.self, one.last, one.src))

\* PadNone.unpad: the plaintext generator itself.
UnpadNone(one) ==
    UnpadResult(one.res, one.item.decrypted, [pc |-> "loop", block |-> None],
                one, Pulled(one))

UnpadStep(self, pad_block_size, debug, ps, last, src) ==
    CASE self.padding_mode = "PAD_NONE" -> UnpadNone(PlaintextPull(self, last, src))
      [] self.padding_mode # "PAD_NONE" /\ ps.pc = "init" ->
            UnpadFirst(self, pad_block_size, debug, PlaintextPull(self, last, src))
      [] self.padding_mode # "PAD_NONE" /\ ps.pc = "loop" ->
            UnpadLoop(self.padding_mode, pad_block_size, debug, ps.block, <<>>,
                      PlaintextPull(self, last, src))
      [] OTHER ->
            UnpadResult("stop", None, PadDone,
                        PullResult("stop", NoBlock, last, src, self), <<>>)

DecryptPulled(g, u) ==
    StepResult([g EXCEPT !.pc = CASE u.res = "stop" -> "done"
                                 [] u.res = "raise" -> "raised"
                                 [] OTHER -> "open",
                         !.pad = u.ps, !.src = u.src, !.last = u.last,
                         !.trace = @ \o u.pulled,
                         !.out = IF u.res = "yield" THEN @ \o <<u.unpadded>> ELSE @],
               u.self)

DecryptStep(self, pad_block_size, g) ==
    DecryptPulled(g, UnpadStep(self, pad_block_size, g.debug, g.pad,
                               IF g.pc = "new" THEN InitialFeedback(self) ELSE g.last,
                               g.src))

GeneratorStep(self, pad_block_size, g) ==
    IF g.op = "encrypt" THEN EncryptStep(self, pad_block_size, g)
    ELSE DecryptStep(self, pad_block_size, g)

(***************************************************************************)
(* modes/core.py ModeOfOperation.__init__ and the constructors of the four *)
(* modes.  PaddingMode is an enumeration: each member holds ONE strategy   *)
(* object, and the constructor assigns the mode's block size to it.        *)
(***************************************************************************)
Kinds == {"ECB", "CBC", "CFB", "CTR"}
PaddingModes == {"PAD_NONE", "PAD_ZEROS", "PAD_PKCS7"}

\* The default of the padding_mode parameter of each mode's constructor.
DefaultPadding(kind) == IF kind = "CFB" THEN "PAD_NONE" ELSE "PAD_PKCS7"

\* block_size = 0 stands for the default None: `block_size or cipher.BLOCK_SIZE`.
Construct(kind, cipher, IV, padding_mode, block_size) ==
    [kind |-> kind, cipher |-> cipher, padding_mode |-> padding_mode,
     block_size |-> IF block_size = 0 THEN cipher.BLOCK_SIZE ELSE block_size,
     IV |-> IV]

\* self.padding_mode.block_size = self.block_size
SetPaddingBlockSize(pad, self) == [pad EXCEPT ![self.padding_mode] = self.block_size]

\* mode.encrypt(block_generator(data, block_size)) / mode.decrypt(...): the
\* generator object, not yet started.
NewGenerator(m, op, debug, data, of) ==
    [mode |-> m, op |-> op, debug |-> debug, data |-> data, of |-> of,
     src |-> block_generator(data, modes[m].block_size),
     pc |-> "new", pad |-> PadInit, last |-> None, trace |-> <<>>, out |-> <<>>]

(***************************************************************************)
(* Inputs.                                                                 *)
(***************************************************************************)
\* The ciphers the modes are built over: two block widths.
BlockCiphers == {[BLOCK_SIZE |-> 16, key |-> 7], [BLOCK_SIZE |-> 24, key |-> 7]}

\* One-block IVs: the all-ones block, a block whose low byte carries, and
\* an unremarkable one.
OnesBlock(n) == [i \in 1..n |-> 255]
CarryBlock(n) == [i \in 1..n |-> IF i = n THEN 255 ELSE 0]
PlainBlock(n) == [i \in 1..n |-> i]
\* The counter of CTR is started from all three, the other modes from the last.
IVs(kind, cipher) ==
    IF kind = "CTR"
    THEN {OnesBlock(cipher.BLOCK_SIZE \div 8), CarryBlock(cipher.BLOCK_SIZE \div 8),
          PlainBlock(cipher.BLOCK_SIZE \div 8)}
    ELSE {PlainBlock(cipher.BLOCK_SIZE \div 8)}

RECURSIVE SeqsUpTo(_, _)
SeqsUpTo(S, n) ==
    IF n = 0 THEN {<<>>}
    ELSE LET shorter == SeqsUpTo(S, n - 1)
         IN  shorter \cup {s \o <<x>> : s \in shorter, x \in S}

\* Messages: every byte string up to MaxLen over the zero byte and bytes
\* that collide with padding values (1, 2).
Bytes == {0, 1, 2}
Messages == SeqsUpTo(Bytes, MaxLen)
\* A few messages, one per interesting length.
FewMessages == {Slice(<<1, 0, 2, 2, 3, 1, 0>>, 0, n) : n \in 0..MaxLen}

(***************************************************************************)
(* cipher/raw_cipher/clefia.py: CLEFIA.  A 32-bit word is held as its four *)
(* bytes, most significant first; a block or key as its bytes.  The round  *)
(* keys, the whitening keys and the round counts are module-level globals  *)
(* of the Python module: they are the variables rk, wk, nr and nrk.        *)
(***************************************************************************)
\* First and second S-box, the two diffusion matrices, the 256-bit constants.
s0 == <<
    87, 73, 209, 198, 47, 51, 116, 251, 149, 109, 130, 234, 14, 176, 168, 28,
    40, 208, 75, 146, 92, 238, 133, 177, 196, 10, 118, 61, 99, 249, 23, 175,
    191, 161, 25, 101, 247, 122, 50, 32, 6, 206, 228, 131, 157, 91, 76, 216,
    66, 93, 46, 232, 212, 155, 15, 19, 60, 137, 103, 192, 113, 170, 182, 245,
    164, 190, 253, 140, 18, 0, 151, 218, 120, 225, 207, 107, 57, 67, 85, 38,
    48, 152, 204, 221, 235, 84, 179, 143, 78, 22, 250, 34, 165, 119, 9, 97,
    214, 42, 83, 55, 69, 193, 108, 174, 239, 112, 8, 153, 139, 29, 242, 180,
    233, 199, 159, 74, 49, 37, 254, 124, 211, 162, 189, 86, 20, 136, 96, 11,
    205, 226, 52, 80, 158, 220, 17, 5, 43, 183, 169, 72, 255, 102, 138, 115,
    3, 117, 134, 241, 106, 167, 64, 194, 185, 44, 219, 31, 88, 148, 62, 237,
    252, 27, 160, 4, 184, 141, 230, 89, 98, 147, 53, 126, 202, 33, 223, 71,
    21, 243, 186, 127, 166, 105, 200, 77, 135, 59, 156, 1, 224, 222, 36, 82,
    123, 12, 104, 30, 128, 178, 90, 231, 173, 213, 35, 244, 70, 63, 145, 201,
    110, 132, 114, 187, 13, 24, 217, 150, 240, 95, 65, 172, 39, 197, 227, 58,
    129, 111, 7, 163, 121, 246, 45, 56, 26, 68, 94, 181, 210, 236, 203, 144,
    154, 54, 229, 41, 195, 79, 171, 100, 81, 248, 16, 215, 188, 2, 125, 142>>

s1 == <<
    108, 218, 195, 233, 78, 157, 10, 61, 184, 54, 180, 56, 19, 52, 12, 217,
    191, 116, 148, 143, 183, 156, 229, 220, 158, 7, 73, 79, 152, 44, 176, 147,
    18, 235, 205, 179, 146, 231, 65, 96, 227, 33, 39, 59, 230, 25, 210, 14,
    145, 17, 199, 63, 42, 142, 161, 188, 43, 200, 197, 15, 91, 243, 135, 139,
    251, 245, 222, 32, 198, 167, 132, 206, 216, 101, 81, 201, 164, 239, 67, 83,
    37, 93, 155, 49, 232, 62, 13, 215, 128, 255, 105, 138, 186, 11, 115, 92,
    110, 84, 21, 98, 246, 53, 48, 82, 163, 22, 211, 40, 50, 250, 170, 94,
    207, 234, 237, 120, 51, 88, 9, 123, 99, 192, 193, 70, 30, 223, 169, 153,
    85, 4, 196, 134, 57, 119, 130, 236, 64, 24, 144, 151, 89, 221, 131, 31,
    154, 55, 6, 36, 100, 124, 165, 86, 72, 8, 133, 208, 97, 38, 202, 111,
    126, 106, 182, 113, 160, 112, 5, 209, 69, 140, 35, 28, 240, 238, 137, 173,
    122, 75, 194, 47, 219, 90, 77, 118, 103, 23, 45, 244, 203, 177, 74, 168,
    181, 34, 71, 58, 213, 16, 76, 114, 204, 0, 249, 224, 253, 226, 254, 174,
    248, 95, 171, 241, 27, 66, 129, 214, 190, 68, 41, 166, 87, 185, 175, 242,
    212, 117, 102, 187, 104, 159, 80, 2, 1, 60, 127, 141, 26, 136, 189, 172,
    247, 228, 121, 150, 162, 252, 109, 178, 107, 3, 225, 46, 125, 20, 149, 29>>

m0 == <<1, 2, 4, 6, 2, 1, 6, 4, 4, 6, 1, 2, 6, 4, 2, 1>>
m1 == <<1, 8, 2, 10, 8, 1, 10, 2, 2, 10, 1, 8, 10, 2, 8, 1>>

con256 == <<
    <<2, 33, 148, 126>>, <<110, 0, 192, 181>>, <<237, 1, 74, 63>>, <<129, 32, 224, 90>>,
    <<154, 145, 165, 31>>, <<246, 176, 112, 45>>, <<161, 89, 210, 143>>, <<205, 120, 184, 22>>,
    <<188, 189, 233, 71>>, <<208, 156, 92, 11>>, <<178, 79, 244, 163>>, <<222, 110, 174, 5>>,
    <<181, 54, 250, 81>>, <<217, 23, 215, 2>>, <<98, 146, 85, 24>>, <<14, 179, 115, 213>>,
    <<9, 64, 130, 188>>, <<101, 97, 161, 190>>, <<60, 169, 233, 110>>, <<80, 136, 72, 139>>,
    <<242, 69, 116, 183>>, <<158, 100, 164, 69>>, <<149, 51, 186, 91>>, <<249, 18, 210, 34>>,
    <<166, 136, 221, 45>>, <<202, 169, 105, 17>>, <<107, 77, 70, 166>>, <<7, 108, 172, 220>>,
    <<217, 183, 35, 83>>, <<181, 150, 86, 110>>, <<128, 202, 145, 169>>, <<236, 235, 43, 55>>,
    <<120, 108, 96, 228>>, <<20, 77, 141, 207>>, <<4, 63, 152, 66>>, <<104, 30, 222, 179>>,
    <<238, 14, 76, 33>>, <<130, 47, 239, 89>>, <<79, 14, 14, 32>>, <<35, 47, 239, 248>>,
    <<31, 142, 175, 32>>, <<115, 175, 111, 168>>, <<55, 206, 255, 160>>, <<91, 239, 47, 128>>,
    <<35, 238, 215, 224>>, <<79, 207, 15, 148>>, <<41, 254, 195, 192>>, <<69, 223, 31, 158>>,
    <<44, 246, 201, 208>>, <<64, 215, 23, 155>>, <<46, 114, 204, 216>>, <<66, 83, 147, 153>>,
    <<47, 48, 206, 92>>, <<67, 17, 209, 152>>, <<47, 145, 207, 30>>, <<67, 176, 112, 152>>,
    <<251, 217, 103, 143>>, <<151, 248, 56, 76>>, <<145, 253, 179, 199>>, <<253, 220, 28, 38>>,
    <<164, 239, 217, 227>>, <<200, 206, 14, 19>>, <<190, 102, 236, 241>>, <<210, 71, 135, 9>>,
    <<103, 58, 94, 72>>, <<11, 27, 219, 208>>, <<11, 148, 135, 20>>, <<103, 181, 117, 188>>,
    <<61, 195, 235, 186>>, <<81, 226, 34, 138>>, <<242, 240, 117, 221>>, <<158, 209, 17, 69>>,
    <<65, 113, 18, 222>>, <<45, 80, 144, 246>>, <<204, 169, 9, 111>>, <<160, 136, 72, 123>>,
    <<138, 69, 132, 183>>, <<230, 100, 164, 61>>, <<169, 51, 194, 91>>, <<197, 18, 210, 30>>,
    <<184, 136, 225, 45>>, <<212, 169, 105, 15>>, <<100, 77, 88, 166>>, <<8, 108, 172, 211>>,
    <<222, 55, 44, 83>>, <<178, 22, 214, 105>>, <<131, 10, 150, 41>>, <<239, 43, 235, 52>>,
    <<121, 140, 99, 36>>, <<21, 173, 109, 206>>, <<4, 207, 153, 162>>, <<104, 238, 46, 179>>>>

\* nrTable["SIZE_256"], nrkTable["SIZE_256"], nwk
nrTable256 == 26
nrkTable256 == 52
nwk == 4
\* nr = None, nrk = None, and the None entries of rk and wk
NoCount == -1
NoWord == <<-1, -1, -1, -1>>

\* a ^ b on two 32-bit words.
XorWord(a, b) ==
    <<XorByte(a[1], b[1]), XorByte(a[2], b[2]), XorByte(a[3], b[3]), XorByte(a[4], b[4])>>

\* [r ^ s for r, s in zip(a, b)] on two lists of four words.
XorWords(a, b) ==
    <<XorWord(a[1], b[1]), XorWord(a[2], b[2]), XorWord(a[3], b[3]), XorWord(a[4], b[4])>>

\* _128To32: the four words of a 128-bit integer; _32To128 joins them.
x128To32(x128) ==
    <<SubSeq(x128, 1, 4), SubSeq(x128, 5, 8), SubSeq(x128, 9, 12), SubSeq(x128, 13, 16)>>
x32To128(x32) == x32[1] \o x32[2] \o x32[3] \o x32[4]

\* int.from_bytes(key, "big") followed by _256To32: the low 256 bits of the
\* key as eight words, a shorter key extended with zero bytes on the left.
x256To32(key) ==
    LET n == Len(key)
        low == [i \in 1..32 |-> IF n - 32 + i >= 1 THEN key[n - 32 + i] ELSE 0]
    IN  <<SubSeq(low, 1, 4), SubSeq(low, 5, 8), SubSeq(low, 9, 12), SubSeq(low, 13, 16),
          SubSeq(low, 17, 20), SubSeq(low, 21, 24), SubSeq(low, 25, 28), SubSeq(low, 29, 32)>>

\* The bits of a word, most significant first, and back.
WordBits(w) == [i \in 1..32 |-> (w[((i - 1) \div 8) + 1] \div Pow2(7 - ((i - 1) % 8))) % 2]
BitsByte(b, i) ==
    128 * b[8 * i - 7] + 64 * b[8 * i - 6] + 32 * b[8 * i - 5] + 16 * b[8 * i - 4]
    + 8 * b[8 * i - 3] + 4 * b[8 * i - 2] + 2 * b[8 * i - 1] + b[8 * i]
BitsWord(b) == <<BitsByte(b, 1), BitsByte(b, 2), BitsByte(b, 3), BitsByte(b, 4)>>

\* sigma: the shifts and masks of the code, on bits.
sigma(x128) ==
    LET x0 == WordBits(x128[1])
        x1 == WordBits(x128[2])
        x2 == WordBits(x128[3])
        x3 == WordBits(x128[4])
    IN  <<BitsWord(SubSeq(x0, 8, 32) \o SubSeq(x1, 1, 7)),
          BitsWord(SubSeq(x1, 8, 32) \o SubSeq(x3, 26, 32)),
          BitsWord(SubSeq(x0, 1, 7) \o SubSeq(x2, 1, 25)),
          BitsWord(SubSeq(x2, 26, 32) \o SubSeq(x3, 1, 25))>>

\* mult: the shift-and-add loop of mMult, p1 growing past eight bits as in
\* the code and the product cut to a byte at the end.
RECURSIVE multLoop(_, _, _)
multLoop(p, p1, p2) ==
    IF p2 = 0 THEN p % 256
    ELSE LET shifted == 2 * p1
         IN  multLoop(IF p2 % 2 = 1 THEN XorInt(p, p1) ELSE p,
                      IF (shifted \div 256) % 2 = 1 THEN XorInt(shifted, 29) ELSE shifted,
                      p2 \div 2)

mult(p1, p2) == multLoop(0, p1, p2)

\* The products by the entries of m0 and m1, computed once.
multBy == [p1 \in {1, 2, 4, 6, 8, 10} |-> [p2 \in 0..255 |-> mult(p1, p2)]]

\* mMult: a 4x4 matrix times a column, in GF(2^8).
mMultRow(m, t, i) ==
    XorByte(XorByte(multBy[m[4 * i - 3]][t[1]], multBy[m[4 * i - 2]][t[2]]),
            XorByte(multBy[m[4 * i - 1]][t[3]], multBy[m[4 * i]][t[4]]))
mMult(m, t) == <<mMultRow(m, t, 1), mMultRow(m, t, 2), mMultRow(m, t, 3), mMultRow(m, t, 4)>>

f0T(t8) == mMult(m0, <<s0[t8[1] + 1], s1[t8[2] + 1], s0[t8[3] + 1], s1[t8[4] + 1]>>)
f1T(t8) == mMult(m1, <<s1[t8[1] + 1], s0[t8[2] + 1], s1[t8[3] + 1], s0[t8[4] + 1]>>)

\* f0(rk, x32), f1(rk, x32): the argument rk is one round key.
f0(rki, x32) == f0T(XorWord(rki, x32))
f1(rki, x32) == f1T(XorWord(rki, x32))

\* t32[1:] + t32[:1] and t32[3:] + t32[:3] (any length: [n-1:] + [:n-1]).
RotL(t32) == Tail(t32) \o <<Head(t32)>>
RotR(t32) == <<t32[Len(t32)]>> \o SubSeq(t32, 1, Len(t32) - 1)

\* gfn4: `keys` is the global rk as the call finds it.  (Every loop below
\* looks at the length of its list first, so that one round is computed
\* before the next is begun.)
gfn4Round(keys, t32, i) ==
    RotL([t32 EXCEPT ![2] = XorWord(@, f0(keys[2 * i + 1], t32[1])),
                     ![4] = XorWord(@, f1(keys[2 * i + 2], t32[3]))])

RECURSIVE gfn4Loop(_, _, _, _)
gfn4Loop(keys, t32, i, n) ==
    IF i >= n \/ Len(t32) # 4 THEN t32
    ELSE gfn4Loop(keys, gfn4Round(keys, t32, i), i + 1, n)

gfn4(keys, x32, n) == RotR(gfn4Loop(keys, x32, 0, n))

\* gfn4i: the rounds in reverse order, rotating the other way.
gfn4iRound(keys, t32, i) ==
    RotR([t32 EXCEPT ![2] = XorWord(@, f0(keys[2 * i + 1], t32[1])),
                     ![4] = XorWord(@, f1(keys[2 * i + 2], t32[3]))])

RECURSIVE gfn4iLoop(_, _, _)
gfn4iLoop(keys, t32, i) ==
    IF i < 0 \/ Len(t32) # 4 THEN t32
    ELSE gfn4iLoop(keys, gfn4iRound(keys, t32, i), i - 1)

gfn4i(keys, x32, n) == RotL(gfn4iLoop(keys, x32, n - 1))

gfn8Round(keys, t32, i) ==
    RotL([t32 EXCEPT ![2] = XorWord(@, f0(keys[4 * i + 1], t32[1])),
                     ![4] = XorWord(@, f1(keys[4 * i + 2], t32[3])),
                     ![6] = XorWord(@, f0(keys[4 * i + 3], t32[5])),
                     ![8] = XorWord(@, f1(keys[4 * i + 4], t32[7]))])

RECURSIVE gfn8Loop(_, _, _, _)
gfn8Loop(keys, t32, i, n) ==
    IF i >= n \/ Len(t32) # 8 THEN t32
    ELSE gfn8Loop(keys, gfn8Round(keys, t32, i), i + 1, n)

gfn8(keys, x32, n) == RotR(gfn8Loop(keys, x32, 0, n))

\* rk[4 * i : 4 * i + 4] = t32
SetRoundKeys(keys, i, t32) ==
    SubSeq(keys, 1, 4 * i) \o t32 \o SubSeq(keys, 4 * i + 5, Len(keys))

\* The second loop of setKey256, from round-key group i on.
RECURSIVE setKey256Loop(_, _, _, _, _, _, _)
setKey256Loop(keys, ll, lr, kl, kr, i, groups) ==
    IF i >= groups \/ Len(ll) # 4 \/ Len(lr) # 4 \/ Len(keys) < 4 * groups THEN keys
    ELSE LET con == SubSeq(con256, 4 * i + 41, 4 * i + 44)
             left == i % 4 = 0 \/ i % 4 = 1
             t32 == XorWords(IF left THEN ll ELSE lr, con)
             keyed == IF i % 2 = 1
                      THEN XorWords(t32, IF left THEN kr ELSE kl)
                      ELSE t32
         IN  setKey256Loop(SetRoundKeys(keys, i, keyed),
                           IF left THEN sigma(ll) ELSE ll,
                           IF left THEN lr ELSE sigma(lr),
                           kl, kr, i + 1, groups)

\* setKey256 after rk[i] = con256[i] for the first len(con256) - nrk entries.
setKey256Keyed(keys, kl, kr, l, count) ==
    [rk |-> setKey256Loop(keys, SubSeq(l, 1, 4), SubSeq(l, 5, 8), kl, kr, 0, count \div 4),
     wk |-> XorWords(kl, kr)]

setKey256Filled(keys, k32, count) ==
    setKey256Keyed(keys, SubSeq(k32, 1, 4), SubSeq(k32, 5, 8), gfn8(keys, k32, 10), count)

\* setKey256: the round and whitening keys as the call leaves the globals.
setKey256(keys, k256, count) ==
    setKey256Filled(SubSeq(con256, 1, Len(con256) - count)
                        \o SubSeq(keys, Len(con256) - count + 1, Len(keys)),
                    x256To32(k256), count)

\* enc and dec, reading the globals: keys = rk, white = wk, rounds = nr.
Whiten(t32, a, b) == [t32 EXCEPT ![2] = XorWord(@, a), ![4] = XorWord(@, b)]

enc(keys, white, rounds, ptext) ==
    x32To128(Whiten(gfn4(keys, Whiten(x128To32(ptext), white[1], white[2]), rounds),
                    white[3], white[4]))

dec(keys, white, rounds, ctext) ==
    x32To128(Whiten(gfn4i(keys, Whiten(x128To32(ctext), white[3], white[4]), rounds),
                    white[1], white[2]))

(***************************************************************************)
(* cipher/clefia.py: the Clefia class over the module above.               *)
(***************************************************************************)
ClefiaBlockSize == 128

\* Clefia.encrypt / Clefia.decrypt: a block of another size is a ValueError.
ClefiaEncrypt(keys, white, rounds, plaintext) ==
    IF Len(plaintext) * 8 # ClefiaBlockSize THEN Raise
    ELSE enc(keys, white, rounds, plaintext)

ClefiaDecrypt(keys, white, rounds, ciphertext) ==
    IF Len(ciphertext) * 8 # ClefiaBlockSize THEN Raise
    ELSE dec(keys, white, rounds, ciphertext)

(***************************************************************************)
(* Actions on modes.                                                       *)
(***************************************************************************)
\* Mode(cipher, IV, padding_mode, block_size): a new mode instance.  With no
\* IV given the constructor draws a random block; either way self.IV is
\* some block.
NewMode(kind, cipher, IV, padding_mode, block_size) ==
    /\ Len(modes) < MaxModes
    /\ modes' = Append(modes, Construct(kind, cipher, IV, padding_mode, block_size))
    /\ padding' = SetPaddingBlockSize(padding,
                        Construct(kind, cipher, IV, padding_mode, block_size))
    /\ UNCHANGED <<gens, cipherVars>>

\* gen = mode.encrypt(blocks) or mode.decrypt(blocks): nothing runs yet.
Call(m, op, debug, data) ==
    /\ Len(gens) < MaxGens
    /\ gens' = Append(gens, NewGenerator(m, op, debug, data, 0))
    /\ UNCHANGED <<padding, modes, cipherVars>>

\* The driver's second half: the concatenated output of a finished encrypt
\* is split again and handed to decrypt of the same mode instance.
CallDecryptOf(k) ==
    /\ Len(gens) < MaxGens
    /\ gens[k].op = "encrypt"
    /\ gens[k].pc = "done"
    /\ gens' = Append(gens, NewGenerator(gens[k].mode, "decrypt", gens[k].debug,
                                         Flatten(gens[k].out), k))
    /\ UNCHANGED <<padding, modes, cipherVars>>

\* next(gen): the generator and the mode instance as the step leaves them.
Stepped(k, r) ==
    /\ gens' = [gens EXCEPT ![k] = r.gen]
    /\ modes' = [modes EXCEPT ![gens[k].mode] = r.self]

Step(k) ==
    /\ gens[k].pc \in {"new", "open"}
    /\ Stepped(k, GeneratorStep(modes[gens[k].mode],
                                padding[modes[gens[k].mode].padding_mode], gens[k]))
    /\ UNCHANGED <<padding, cipherVars>>

(***************************************************************************)
(* The library in general: modes are constructed with their default        *)
(* padding, calls are made and generators are advanced in any order.       *)
(***************************************************************************)
\* The Clefia module as imported: no key has been set.
NoClefia ==
    /\ instances = <<>>
    /\ rk = [i \in 1..(2 * nrTable256) |-> NoWord]
    /\ wk = [i \in 1..nwk |-> NoWord]
    /\ nr = NoCount
    /\ nrk = NoCount
    /\ calls = <<>>

Init ==
    /\ padding = [p \in PaddingModes |-> NoSize]
    /\ modes = <<>>
    /\ gens = <<>>
    /\ NoClefia

Next ==
    \/ \E kind \in Kinds, cipher \in BlockCiphers :
          NewMode(kind, cipher, PlainBlock(cipher.BLOCK_SIZE \div 8),
                  DefaultPadding(kind), 0)
    \/ \E m \in 1..Len(modes), data \in FewMessages :
          Call(m, "encrypt", FALSE, data)
    \/ \E k \in 1..Len(gens) : CallDecryptOf(k)
    \/ \E k \in 1..Len(gens) : Step(k)

Spec == Init /\ [][Next]_vars

(***************************************************************************)
(* operation.py operate_block_mode: one mode instance; a message is split, *)
(* encrypted to the end, the ciphertext is split again and decrypted.      *)
(***************************************************************************)
\* The block_size argument: the default, and for CFB a one-byte segment.
SegmentSizes(kind) == IF kind = "CFB" THEN {0, 8} ELSE {0}

InitStream ==
    /\ gens = <<>>
    /\ NoClefia
    /\ \E kind \in Kinds, cipher \in BlockCiphers, padding_mode \in PaddingModes :
          \E IV \in IVs(kind, cipher), block_size \in SegmentSizes(kind) :
             /\ modes = <<Construct(kind, cipher, IV, padding_mode, block_size)>>
             /\ padding = SetPaddingBlockSize([p \in PaddingModes |-> NoSize],
                              Construct(kind, cipher, IV, padding_mode, block_size))

NextStream ==
    \/ \E debug \in BOOLEAN, data \in Messages :
          gens = <<>> /\ Call(1, "encrypt", debug, data)
    \/ Len(gens) = 1 /\ CallDecryptOf(1)
    \/ \E k \in 1..Len(gens) : Step(k)

SpecStream == InitStream /\ [][NextStream]_vars

(***************************************************************************)
(* One mode instance used re-entrantly: several encrypt / decrypt          *)
(* generators of it are alive and advanced in any order.                   *)
(***************************************************************************)
\* Two messages of each of the two longest lengths: equal lengths, different
\* bytes in every block.
ReentrantMessages ==
    {Slice(<<1, 0, 2, 2, 1, 0, 1>>, 0, n) : n \in (MaxLen - 1)..MaxLen}
    \cup {Slice(<<2, 2, 0, 1, 0, 2, 2>>, 0, n) : n \in (MaxLen - 1)..MaxLen}

ReentrantCipher == [BLOCK_SIZE |-> 16, key |-> 7]

InitReentrant ==
    /\ gens = <<>>
    /\ NoClefia
    /\ \E kind \in Kinds, IV \in {PlainBlock(2), OnesBlock(2)} :
          /\ modes = <<Construct(kind, ReentrantCipher, IV, DefaultPadding(kind), 0)>>
          /\ padding = SetPaddingBlockSize([p \in PaddingModes |-> NoSize],
                           Construct(kind, ReentrantCipher, IV, DefaultPadding(kind), 0))

NextReentrant ==
    \/ \E data \in ReentrantMessages : Call(1, "encrypt", FALSE, data)
    \/ \E k \in 1..Len(gens) : CallDecryptOf(k)
    \/ \E k \in 1..Len(gens) : Step(k)

SpecReentrant == InitReentrant /\ [][NextReentrant]_vars

(***************************************************************************)
(* Cipher instances: Clefia objects are constructed and single blocks are *)
(* encrypted and decrypted on them, in any order.                          *)
(***************************************************************************)
\* Keys of KEY_SIZE bits and blocks of BLOCK_SIZE bits.
ClefiaKeys == {[i \in 1..32 |-> i - 1], [i \in 1..32 |-> 0], [i \in 1..32 |-> 255 - i]}
ClefiaBlocks == {[i \in 1..16 |-> i - 1], [i \in 1..16 |-> (7 * i) % 256]}

\* Clefia(key): self.key = int.from_bytes(key), then setKey(self.key,
\* "SIZE_256"), which assigns the module's nr and nrk and fills rk and wk.
SetKeys(schedule) ==
    /\ rk' = schedule.rk
    /\ wk' = schedule.wk

NewClefia(key) ==
    /\ Len(instances) < MaxInstances
    /\ instances' = Append(instances, [key |-> key])
    /\ nr' = nrTable256
    /\ nrk' = nrkTable256
    /\ SetKeys(setKey256(rk, key, nrkTable256))
    /\ UNCHANGED <<calls, modeVars>>

\* y = c.encrypt(x)
EncryptBlockOn(c, x) ==
    /\ Len(calls) < MaxBlocks
    /\ calls' = Append(calls, [cipher |-> c, pt |-> x,
                                 ct |-> ClefiaEncrypt(rk, wk, nr, x), rt |-> None])
    /\ UNCHANGED <<instances, rk, wk, nr, nrk, modeVars>>

\* c.decrypt(y) for the y of an earlier c.encrypt, on the same instance c.
DecryptBlockOf(b) ==
    /\ calls[b].rt = None
    /\ calls[b].ct # Raise
    /\ calls' = [calls EXCEPT ![b].rt = ClefiaDecrypt(rk, wk, nr, calls[b].ct)]
    /\ UNCHANGED <<instances, rk, wk, nr, nrk, modeVars>>

InitCipher ==
    /\ padding = [p \in PaddingModes |-> NoSize]
    /\ modes = <<>>
    /\ gens = <<>>
    /\ NoClefia

NextCipher ==
    \/ \E key \in ClefiaKeys : NewClefia(key)
    \/ \E c \in 1..Len(instances), x \in ClefiaBlocks : EncryptBlockOn(c, x)
    \/ \E b \in 1..Len(calls) : DecryptBlockOf(b)

SpecCipher == InitCipher /\ [][NextCipher]_vars

(***************************************************************************)
(* Properties.                                                             *)
(***************************************************************************)
ModeOf(g) == modes[g.mode]
Finished(g) == g.pc \in {"done", "raised"}
IsPrefix(a, b) == Len(a) <= Len(b) /\ a = SubSeq(b, 1, Len(a))

\* C1: for every mode built with its default padding and every message x of
\* any length >= 0, encrypt followed by decrypt of the re-split ciphertext on
\* the same mode instance gives back exactly x: no call fails, and the blocks
\* decrypt yields concatenate to x.
C1_RoundTrip ==
    \A k \in 1..Len(gens) :
        ModeOf(gens[k]).padding_mode = DefaultPadding(ModeOf(gens[k]).kind)
        => /\ gens[k].pc # "raised"
           /\ (gens[k].op = "decrypt" /\ gens[k].pc = "done")
                 => Flatten(gens[k].out) = gens[gens[k].of].data

\* C2: decrypt(encrypt(x)) = x for every block x, both calls being made on
\* the same cipher instance.
C2_DecryptInvertsEncrypt ==
    \A b \in 1..Len(calls) : calls[b].rt # None => calls[b].rt = calls[b].pt

\* The schedule setKey derives from the key of instance c alone.
OwnSchedule(c) == setKey256([i \in 1..(2 * nrTable256) |-> NoWord], instances[c].key, nrkTable256)

\* C3: the round-key schedule every live cipher instance works with is the
\* one derived from its own key, and so every result of c.encrypt is the
\* encryption under c's key, whatever was constructed in between.
C3_OwnKeySchedule ==
    /\ \A c \in 1..Len(instances) : rk = OwnSchedule(c).rk /\ wk = OwnSchedule(c).wk
    /\ \A b \in 1..Len(calls) :
          calls[b].ct = ClefiaEncrypt(OwnSchedule(calls[b].cipher).rk,
                                      OwnSchedule(calls[b].cipher).wk, nrTable256, calls[b].pt)

\* C4: no step, and in particular no construction of a further mode
\* instance, changes the padding block size of a mode instance that exists.
C4_PaddingSizeKept ==
    [][\A m \in 1..Len(modes) :
          padding'[modes[m].padding_mode] = padding[modes[m].padding_mode]]_vars

\* The first block of a call is chained with / counted from the IV.
StartsFromIV(g) ==
    (ModeOf(g).kind # "ECB" /\ g.trace # <<>>) => g.trace[1].IV = ModeOf(g).IV

SameCiphertext(g, h) ==
    (g.op = "encrypt" /\ h.op = "encrypt" /\ g.mode = h.mode /\ g.data = h.data)
    => /\ \A i \in 1..Min(Len(g.out), Len(h.out)) : g.out[i] = h.out[i]
       /\ (g.pc = "done" /\ h.pc = "done") => g.out = h.out

\* C5: encrypt and decrypt never modify the mode instance; every call of
\* CBC, CFB and CTR starts from the instance's IV, and two encrypt calls on
\* the same message give the same ciphertext blocks.
C5_InstanceUnchanged ==
    /\ [](\A j, k \in 1..Len(gens) : StartsFromIV(gens[k]) /\ SameCiphertext(gens[j], gens[k]))
    /\ [][modes' = modes]_vars

\* Two completed encrypt calls of a chaining mode on the same message.
C5_Witness ==
    /\ Len(gens) >= 2
    /\ ModeOf(gens[1]).kind \in {"CBC", "CFB", "CTR"}
    /\ gens[1].op = "encrypt" /\ gens[2].op = "encrypt"
    /\ gens[1].data = gens[2].data
    /\ gens[1].pc = "done" /\ gens[2].pc = "done"
    /\ Len(gens[2].out) >= 2

\* The generator g run to its end with nothing else going on.
RECURSIVE RunAlone(_, _, _)
RunAlone(self, pad_block_size, g) ==
    IF Finished(g) THEN g
    ELSE RunAlone(GeneratorStep(self, pad_block_size, g).self, pad_block_size,
                  GeneratorStep(self, pad_block_size, g).gen)

Alone(g) ==
    RunAlone(ModeOf(g), padding[ModeOf(g).padding_mode],
             NewGenerator(g.mode, g.op, g.debug, g.data, g.of))

AsAlone(g, alone) ==
    /\ IsPrefix(g.out, alone.out)
    /\ Finished(g) => (g.out = alone.out /\ g.pc = alone.pc)

Chained(g, i) == IF i = 1 THEN ModeOf(g).IV ELSE g.trace[i - 1].encrypted

Originals(g) == Flatten([i \in 1..Len(g.trace) |-> g.trace[i].original])

CBCEncrypts(g) ==
    /\ IsPrefix(Originals(g), g.data)
    /\ Len(g.out) = Len(g.trace)
    /\ \A i \in 1..Len(g.trace) :
          /\ g.trace[i].encrypted =
                CipherEncrypt(ModeOf(g).cipher, xor(g.trace[i].padded, Chained(g, i)))
          /\ g.out[i] = g.trace[i].encrypted

CBCDecrypts(g) ==
    \A i \in 1..Len(g.trace) :
        /\ g.trace[i].encrypted = block_generator(g.data, ModeOf(g).block_size)[i]
        /\ g.trace[i].decrypted =
              xor(CipherDecrypt(ModeOf(g).cipher, g.trace[i].encrypted), Chained(g, i))

\* C7: CBC encrypt yields C_i = E_K(P_i xor C_{i-1}) for the padded blocks
\* P_i in order, C_0 = IV; CBC decrypt computes P_i = D_K(C_i) xor C_{i-1} from
\* the received ciphertext blocks, C_0 = IV.
C7_CBCChaining ==
    \A k \in 1..Len(gens) :
        ModeOf(gens[k]).kind = "CBC"
        => IF gens[k].op = "encrypt" THEN CBCEncrypts(gens[k]) ELSE CBCDecrypts(gens[k])

\* A CBC decrypt of three or more blocks that has recovered the message.
C7_Witness ==
    /\ Len(gens) = 2
    /\ ModeOf(gens[2]).kind = "CBC"
    /\ gens[2].op = "decrypt" /\ gens[2].pc = "done"
    /\ Len(gens[2].trace) >= 3
    /\ Flatten(gens[2].out) = gens[1].data

\* The CFB register after the segment of a trace item.
NextRegister(item) ==
    Slice(item.IV, Len(item.encrypted), Len(item.IV)) \o item.encrypted

Registers(g) ==
    /\ \A i \in 1..Len(g.trace) :
          /\ g.trace[i].IV = IF i = 1 THEN ModeOf(g).IV ELSE NextRegister(g.trace[i - 1])
          /\ Len(g.trace[i].IV) * 8 = ModeOf(g).cipher.BLOCK_SIZE
          /\ g.trace[i].E_IV = CipherEncrypt(ModeOf(g).cipher, g.trace[i].IV)
    /\ (g.trace # <<>> /\ ~Finished(g))
          => /\ g.last = NextRegister(g.trace[Len(g.trace)])
             /\ Len(g.last) * 8 = ModeOf(g).cipher.BLOCK_SIZE

CFBEncrypts(g) ==
    \A i \in 1..Len(g.trace) :
        g.trace[i].encrypted =
            xor(g.trace[i].padded, Slice(g.trace[i].E_IV, 0, Len(g.trace[i].padded)))

CFBDecrypts(g) ==
    \A i \in 1..Len(g.trace) :
        /\ g.trace[i].encrypted = block_generator(g.data, ModeOf(g).block_size)[i]
        /\ g.trace[i].decrypted =
              xor(g.trace[i].encrypted, Slice(g.trace[i].E_IV, 0, Len(g.trace[i].encrypted)))
        /\ g.trace[i].decrypted = gens[g.of].trace[i].padded

\* C8: CFB encrypt computes C_i = P_i xor the first |P_i| bytes of
\* E_K(IV_i), with IV_1 = IV and IV_{i+1} = IV_i without its first |P_i| bytes,
\* followed by C_i; the register stays one cipher block wide.  CFB decrypt
\* runs the cipher's encrypt with the same register update, driven by the
\* ciphertext segments, and recovers every P_i, a short final one included.
C8_CFBRegister ==
    \A k \in 1..Len(gens) :
        ModeOf(gens[k]).kind = "CFB"
        => /\ Registers(gens[k])
           /\ IF gens[k].op = "encrypt" THEN CFBEncrypts(gens[k]) ELSE CFBDecrypts(gens[k])

\* A decrypt that has recovered a message whose last segment is short.
C8_Witness ==
    /\ Len(gens) = 2
    /\ ModeOf(gens[2]).kind = "CFB"
    /\ ModeOf(gens[2]).padding_mode = "PAD_NONE"
    /\ gens[2].op = "decrypt" /\ gens[2].pc = "done"
    /\ Len(gens[2].trace) >= 2
    /\ Len(gens[2].trace[Len(gens[2].trace)].encrypted) * 8 < ModeOf(gens[2]).cipher.BLOCK_SIZE
    /\ Flatten(gens[2].out) = gens[1].data

\* The counter of the i-th block, in closed form.
Counter(self, i) ==
    ToBytes((FromBytes(self.IV) + i - 1) % Pow2(self.block_size), self.block_size \div 8)

Keystream(g) ==
    /\ \A i \in 1..Len(g.trace) :
          /\ g.trace[i].IV = Counter(ModeOf(g), i)
          /\ g.trace[i].E_IV = CipherEncrypt(ModeOf(g).cipher, Counter(ModeOf(g), i))
          /\ Len(g.trace[i].IV) * 8 = ModeOf(g).block_size
          /\ (i > 1 /\ g.trace[i - 1].IV = OnesBlock(ModeOf(g).block_size \div 8))
                => g.trace[i].IV = [j \in 1..(ModeOf(g).block_size \div 8) |-> 0]
          /\ IF g.op = "encrypt"
             THEN g.trace[i].encrypted = xor(g.trace[i].padded, g.trace[i].E_IV)
             ELSE g.trace[i].decrypted = xor(g.trace[i].encrypted, g.trace[i].E_IV)
    /\ (g.trace # <<>> /\ ~Finished(g)) => Len(g.last) * 8 = ModeOf(g).block_size

\* C9: the keystream block of the i-th block of CTR, on encrypt and on
\* decrypt, is E_K of (IV + i - 1) mod 2^block_size written big-endian on one
\* block; the all-ones counter is followed by the all-zero one, and the
\* counter is always one block wide.
C9_CTRKeystream ==
    \A k \in 1..Len(gens) : ModeOf(gens[k]).kind = "CTR" => Keystream(gens[k])

\* A counter that has wrapped from all ones to zero, on decrypt.
C9_Witness ==
    /\ Len(gens) = 2
    /\ ModeOf(gens[2]).kind = "CTR"
    /\ gens[2].op = "decrypt"
    /\ Len(gens[2].trace) >= 3
    /\ gens[2].trace[1].IV = OnesBlock(Len(ModeOf(gens[2]).IV))
    /\ gens[2].trace[2].IV = [j \in 1..Len(ModeOf(gens[2]).IV) |-> 0]

\* Two CTR encrypt calls of one instance on plaintexts of equal length.
XorOfCiphertexts(g, h) ==
    (/\ g.op = "encrypt" /\ h.op = "encrypt"
     /\ g.mode = h.mode /\ ModeOf(g).kind = "CTR"
     /\ Len(g.data) = Len(h.data))
    => \A i \in 1..Min(Len(g.out), Len(h.out)) :
          xor(g.out[i], h.out[i]) = xor(g.trace[i].padded, h.trace[i].padded)

\* C10: for two plaintexts of equal length encrypted by CTR under the same
\* key and IV, the block-wise xor of the ciphertexts is the block-wise xor of
\* the padded plaintexts.
C10_CTRXor ==
    \A j, k \in 1..Len(gens) : XorOfCiphertexts(gens[j], gens[k])

\* Two completed CTR encrypt calls on different messages of one length.
C10_Witness ==
    /\ Len(gens) >= 2
    /\ ModeOf(gens[1]).kind = "CTR"
    /\ gens[1].op = "encrypt" /\ gens[2].op = "encrypt"
    /\ Len(gens[1].data) = Len(gens[2].data)
    /\ gens[1].data # gens[2].data
    /\ gens[1].pc = "done" /\ gens[2].pc = "done"
    /\ Len(gens[1].out) >= 2

\* The padded blocks an encrypt call has been handed by pad, concatenated.
PaddedSoFar(g) == Flatten([i \in 1..Len(g.trace) |-> g.trace[i].padded])

\* data followed by n bytes of value n, n = width - (len mod width).
PKCS7Padded(data, width) ==
    data \o Repeat(<<width - (Len(data) % width)>>, width - (Len(data) % width))

\* C11: PadPKCS7.pad never fails; every block it emits is block_bytes long;
\* the blocks it emits are the input followed by n bytes of value n, with
\* n = block_bytes - (len mod block_bytes), which is one extra full block of
\* padding when len mod block_bytes = 0, the empty input included.
C11_PKCS7Pad ==
    \A k \in 1..Len(gens) :
        (gens[k].op = "encrypt" /\ ModeOf(gens[k]).padding_mode = "PAD_PKCS7")
        => /\ gens[k].pc # "raised"
           /\ \A i \in 1..Len(gens[k].trace) :
                 Len(gens[k].trace[i].padded) = ModeOf(gens[k]).block_size \div 8
           /\ IsPrefix(PaddedSoFar(gens[k]),
                       PKCS7Padded(gens[k].data, ModeOf(gens[k]).block_size \div 8))
           /\ gens[k].pc = "done"
                 => PaddedSoFar(gens[k])
                    = PKCS7Padded(gens[k].data, ModeOf(gens[k]).block_size \div 8)

(***************************************************************************)
(* Mode.decrypt handed a ciphertext of the caller's choosing: an ECB mode  *)
(* with a padding strategy decrypts and unpads blocks that no encrypt of   *)
(* the library need have produced.                                         *)
(***************************************************************************)
\* The plaintexts behind the ciphertexts: up to two whole blocks over bytes
\* that are and are not padding counts, and one string that is no whole
\* number of blocks.
UnpadBytes == {0, 1, 2, 3}
WholeBlocks(width) ==
    {s \in SeqsUpTo(UnpadBytes, 2 * width) : Len(s) % width = 0}

RECURSIVE ECBEncipher(_, _)
ECBEncipher(cipher, blocks) ==
    IF blocks = <<>> THEN <<>>
    ELSE CipherEncrypt(cipher, Head(blocks)) \o ECBEncipher(cipher, Tail(blocks))

Ciphertexts(cipher) ==
    {ECBEncipher(cipher, block_generator(s, cipher.BLOCK_SIZE)) :
        s \in WholeBlocks(cipher.BLOCK_SIZE \div 8)}
    \cup {<<9>>}

InitUnpad ==
    /\ gens = <<>>
    /\ NoClefia
    /\ \E padding_mode \in {"PAD_PKCS7", "PAD_ZEROS"} :
          /\ modes = <<Construct("ECB", ReentrantCipher, None, padding_mode, 0)>>
          /\ padding = SetPaddingBlockSize([p \in PaddingModes |-> NoSize],
                           Construct("ECB", ReentrantCipher, None, padding_mode, 0))

NextUnpad ==
    \/ \E debug \in BOOLEAN, data \in Ciphertexts(ReentrantCipher) :
          gens = <<>> /\ Call(1, "decrypt", debug, data)
    \/ \E k \in 1..Len(gens) : Step(k)

SpecUnpad == InitUnpad /\ [][NextUnpad]_vars

\* The blocks a decrypt call has deciphered, concatenated.
DecryptedSoFar(g) == Flatten([i \in 1..Len(g.trace) |-> g.trace[i].decrypted])

\* The final byte of p is a count n with 0 < n <= width and the last n
\* bytes of p all equal n.
ValidPKCS7(p, width) ==
    /\ p # <<>>
    /\ p[Len(p)] > 0 /\ p[Len(p)] <= width /\ p[Len(p)] <= Len(p)
    /\ \A i \in (Len(p) - p[Len(p)] + 1)..Len(p) : p[i] = p[Len(p)]

\* C12: PadPKCS7.unpad, at the end of a deciphered text p whose final byte
\* is n: when n is a valid count and the last n bytes all equal n it yields
\* p less its last n bytes; in every other case it fails, yielding neither
\* data for the final block nor ending normally.
C12_PKCS7Unpad ==
    \A k \in 1..Len(gens) :
        (gens[k].op = "decrypt" /\ ModeOf(gens[k]).padding_mode = "PAD_PKCS7"
           /\ Finished(gens[k]) /\ gens[k].src = <<>>)
        => IF ValidPKCS7(DecryptedSoFar(gens[k]), ModeOf(gens[k]).block_size \div 8)
           THEN /\ gens[k].pc = "done"
                /\ Flatten(gens[k].out)
                   = SubSeq(DecryptedSoFar(gens[k]), 1,
                            Len(DecryptedSoFar(gens[k]))
                            - DecryptedSoFar(gens[k])[Len(DecryptedSoFar(gens[k]))])
           ELSE gens[k].pc = "raised"

(***************************************************************************)
(* CBC with PKCS#7 padding over messages of up to MaxWhole whole blocks    *)
(* and one byte: a message is encrypted to the end and the ciphertext is   *)
(* decrypted on the same instance.                                         *)
(***************************************************************************)
MaxWhole == 3

\* Messages of every length 0..MaxWhole * width + 1, two of each length.
LongMessages(width) ==
    {[i \in 1..n |-> (3 * i + c) % 7] : n \in 0..(MaxWhole * width + 1), c \in {0, 2}}

InitCBC ==
    /\ gens = <<>>
    /\ NoClefia
    /\ \E cipher \in BlockCiphers :
          /\ modes = <<Construct("CBC", cipher, PlainBlock(cipher.BLOCK_SIZE \div 8),
                                 "PAD_PKCS7", 0)>>
          /\ padding = SetPaddingBlockSize([p \in PaddingModes |-> NoSize],
                           Construct("CBC", cipher, PlainBlock(cipher.BLOCK_SIZE \div 8),
                                     "PAD_PKCS7", 0))

NextCBC ==
    \/ \E debug \in BOOLEAN, data \in LongMessages(modes[1].block_size \div 8) :
          gens = <<>> /\ Call(1, "encrypt", debug, data)
    \/ Len(gens) = 1 /\ CallDecryptOf(1)
    \/ \E k \in 1..Len(gens) : Step(k)

SpecCBC == InitCBC /\ [][NextCBC]_vars

\* The i-th block of the PKCS#7-padded message of an encrypt call.
PaddedBlock(g, i) ==
    block_generator(PKCS7Padded(g.data, ModeOf(g).block_size \div 8),
                    ModeOf(g).block_size)[i]

\* C13: CBC with PKCS#7 over a message of L bytes and blocks of b bytes:
\* encrypt does not fail, yields one ciphertext block of b bytes per padded
\* plaintext block, in input order, (floor(L / b) + 1) * b bytes in all;
\* decrypt of that ciphertext does not fail and yields the L original bytes.
C13_CBCLength ==
    \A k \in 1..Len(gens) :
        /\ gens[k].pc # "raised"
        /\ gens[k].op = "encrypt"
              => /\ \A i \in 1..Len(gens[k].out) :
                       /\ Len(gens[k].out[i]) = ModeOf(gens[k]).block_size \div 8
                       /\ gens[k].out[i]
                          = CipherEncrypt(ModeOf(gens[k]).cipher,
                                          xor(PaddedBlock(gens[k], i),
                                              IF i = 1 THEN ModeOf(gens[k]).IV
                                              ELSE gens[k].out[i - 1]))
                 /\ gens[k].pc = "done"
                       => Len(Flatten(gens[k].out))
                          = ((Len(gens[k].data) \div (ModeOf(gens[k]).block_size \div 8)) + 1)
                            * (ModeOf(gens[k]).block_size \div 8)
        /\ (gens[k].op = "decrypt" /\ gens[k].pc = "done")
              => Flatten(gens[k].out) = gens[gens[k].of].data

\* What the claim has PadZeros.pad emit for `data`: zeros up to the block
\* width; for a whole number of blocks, one block of zeros on the debug path
\* and nothing otherwise.
ZerosPadded(data, width, debug) ==
    IF Len(data) % width # 0
    THEN data \o Repeat(<<0>>, width - (Len(data) % width))
    ELSE IF debug THEN data \o Repeat(<<0>>, width) ELSE data

\* The deciphered blocks with the trailing zero bytes of the last removed.
ZerosStripped(g) ==
    IF g.trace = <<>> THEN <<>>
    ELSE Flatten([i \in 1..(Len(g.trace) - 1) |-> g.trace[i].decrypted])
         \o RStripZeros(g.trace[Len(g.trace)].decrypted)

\* C14: with PadZeros, encrypt is handed the message right-padded with zero
\* bytes to the block width, plus a block of zeros for a whole number of
\* blocks on the debug path only; decrypt yields every block but the last
\* unchanged and the last without its trailing zero bytes.  No call fails.
C14_ZerosPadding ==
    \A k \in 1..Len(gens) :
        ModeOf(gens[k]).padding_mode = "PAD_ZEROS"
        => /\ gens[k].pc # "raised"
           /\ (gens[k].op = "encrypt" /\ gens[k].pc = "done")
                 => PaddedSoFar(gens[k])
                    = ZerosPadded(gens[k].data, ModeOf(gens[k]).block_size \div 8,
                                  gens[k].debug)
           /\ (gens[k].op = "decrypt" /\ gens[k].pc = "done")
                 => Flatten(gens[k].out) = ZerosStripped(gens[k])

(***************************************************************************)
(* cipher/components/transforms/pipeline.py: Pipeline.  A pipeline holds   *)
(* the list of its component ciphers and the order decrypt follows.  It is *)
(* one more cipher instance; the single-block calls made on it are kept in *)
(* `calls` as those of any cipher.                                         *)
(***************************************************************************)
MaxStages == 3

\* Pipeline.__init__
NewPipelineObject(ciphers, order) == [ciphers |-> ciphers, process_order |-> order]

\* for cipher in ciphers: ciphertext = cipher.encrypt(ciphertext)
RECURSIVE PipelineEncryptLoop(_, _)
PipelineEncryptLoop(ciphers, ciphertext) ==
    IF ciphers = <<>> THEN ciphertext
    ELSE PipelineEncryptLoop(Tail(ciphers), CipherEncrypt(Head(ciphers), ciphertext))

\* for cipher in ciphers: plaintext = cipher.decrypt(plaintext)
RECURSIVE PipelineDecryptLoop(_, _)
PipelineDecryptLoop(ciphers, plaintext) ==
    IF ciphers = <<>> THEN plaintext
    ELSE PipelineDecryptLoop(Tail(ciphers), CipherDecrypt(Head(ciphers), plaintext))

\* ciphers[::-1]
Reversed(ciphers) == [i \in 1..Len(ciphers) |-> ciphers[Len(ciphers) + 1 - i]]

PipelineEncrypt(self, plaintext) == PipelineEncryptLoop(self.ciphers, plaintext)

\* A decrypt that follows the list order whatever process_order says.
PipelineDecryptInListOrder(self, ciphertext) ==
    PipelineDecryptLoop(self.ciphers, ciphertext)

PipelineDecrypt(self, ciphertext) ==
    IF self.process_order = "ORIGINAL"
    THEN PipelineDecryptLoop(self.ciphers, ciphertext)
    ELSE PipelineDecryptLoop(Reversed(self.ciphers), ciphertext)

\* The components: ciphers of one width under different keys, which do not
\* commute, in lists of up to MaxStages.
StageCiphers == {[BLOCK_SIZE |-> 16, key |-> 7], [BLOCK_SIZE |-> 16, key |-> 11]}
Orders == {"NATURAL", "ORIGINAL"}
StageBlocks == {<<1, 2>>, <<0, 200>>, <<255, 3>>}

\* y = pipeline.encrypt(x)
PipelineEncryptOn(c, x) ==
    /\ Len(calls) < MaxBlocks
    /\ calls' = Append(calls, [cipher |-> c, pt |-> x,
                               ct |-> PipelineEncrypt(instances[c], x), rt |-> None])
    /\ UNCHANGED <<instances, rk, wk, nr, nrk, modeVars>>

\* pipeline.decrypt(y) for the y of an earlier encrypt on the pipeline.
PipelineDecryptOf(b) ==
    /\ calls[b].rt = None
    /\ calls' = [calls EXCEPT ![b].rt =
                    PipelineDecrypt(instances[calls[b].cipher], calls[b].ct)]
    /\ UNCHANGED <<instances, rk, wk, nr, nrk, modeVars>>

InitPipeline ==
    /\ padding = [p \in PaddingModes |-> NoSize]
    /\ modes = <<>>
    /\ gens = <<>>
    /\ rk = [i \in 1..(2 * nrTable256) |-> NoWord]
    /\ wk = [i \in 1..nwk |-> NoWord]
    /\ nr = NoCount
    /\ nrk = NoCount
    /\ calls = <<>>
    /\ \E ciphers \in SeqsUpTo(StageCiphers, MaxStages), order \in Orders :
          instances = <<NewPipelineObject(ciphers, order)>>

NextPipeline ==
    \/ \E x \in StageBlocks : PipelineEncryptOn(1, x)
    \/ \E b \in 1..Len(calls) : PipelineDecryptOf(b)

SpecPipeline == InitPipeline /\ [][NextPipeline]_vars

\* ciphers[i].encrypt(... ciphers[1].encrypt(x) ...)
RECURSIVE EncryptedBy(_, _, _)
EncryptedBy(ciphers, x, i) ==
    IF i = 0 THEN x ELSE CipherEncrypt(ciphers[i], EncryptedBy(ciphers, x, i - 1))

\* ciphers[i].decrypt(... ciphers[Len].decrypt(y) ...)
RECURSIVE DecryptedDownTo(_, _, _)
DecryptedDownTo(ciphers, y, i) ==
    IF i > Len(ciphers) THEN y
    ELSE CipherDecrypt(ciphers[i], DecryptedDownTo(ciphers, y, i + 1))

\* ciphers[i].decrypt(... ciphers[1].decrypt(y) ...)
RECURSIVE DecryptedUpTo(_, _, _)
DecryptedUpTo(ciphers, y, i) ==
    IF i = 0 THEN y ELSE CipherDecrypt(ciphers[i], DecryptedUpTo(ciphers, y, i - 1))

PipelineOf(b) == instances[calls[b].cipher]

\* C15: Pipeline([a, b, c]).encrypt(x) = c.encrypt(b.encrypt(a.encrypt(x)));
\* decrypt applies the components' decrypt last to first under NATURAL and
\* first to last under ORIGINAL; under NATURAL decrypt(encrypt(x)) = x, the
\* components each inverting their own encrypt.
C15_PipelineOrder ==
    \A b \in 1..Len(calls) :
        /\ calls[b].ct
           = EncryptedBy(PipelineOf(b).ciphers, calls[b].pt, Len(PipelineOf(b).ciphers))
        /\ (calls[b].rt # None /\ PipelineOf(b).process_order = "NATURAL")
              => /\ calls[b].rt = DecryptedDownTo(PipelineOf(b).ciphers, calls[b].ct, 1)
                 /\ calls[b].rt = calls[b].pt
        /\ (calls[b].rt # None /\ PipelineOf(b).process_order = "ORIGINAL")
              => calls[b].rt = DecryptedUpTo(PipelineOf(b).ciphers, calls[b].ct,
                                             Len(PipelineOf(b).ciphers))

\* A round trip through three components under two keys, where the order
\* of the components shows in the ciphertext.
C15_Witness ==
    \E b \in 1..Len(calls) :
        /\ Len(PipelineOf(b).ciphers) = 3
        /\ PipelineOf(b).process_order = "NATURAL"
        /\ PipelineOf(b).ciphers[1] # PipelineOf(b).ciphers[3]
        /\ calls[b].rt = calls[b].pt
        /\ calls[b].ct # PipelineEncryptLoop(Reversed(PipelineOf(b).ciphers), calls[b].pt)

\* The number of input blocks a call has pulled from its block iterator.
PulledCount(g) == Len(block_generator(g.data, ModeOf(g).block_size)) - Len(g.src)

\* C16: encrypt and decrypt are lazy: a call that has not been asked for a
\* block has pulled nothing; one demand yields at most one block and pulls
\* at most two; and from the start of a demand to its end the blocks pulled
\* exceed the blocks yielded by at most two.
C16_LazyPull ==
    /\ [](\A k \in 1..Len(gens) :
             /\ gens[k].pc = "new" => (PulledCount(gens[k]) = 0 /\ gens[k].out = <<>>)
             /\ PulledCount(gens[k]) - Len(gens[k].out) <= 2)
    /\ [][\A k \in 1..Len(gens) :
             /\ Len(gens'[k].out) - Len(gens[k].out) <= 1
             /\ PulledCount(gens'[k]) - PulledCount(gens[k]) <= 2
             /\ PulledCount(gens'[k]) - Len(gens[k].out) <= 2]_vars

\* A padded encrypt part-way through a message of three or more blocks,
\* holding its look-ahead block.
C16_Witness ==
    \E k \in 1..Len(gens) :
        /\ gens[k].pc = "open"
        /\ ModeOf(gens[k]).padding_mode = "PAD_PKCS7"
        /\ Len(gens[k].out) = 2
        /\ PulledCount(gens[k]) = 3
        /\ gens[k].src # <<>>

(***************************************************************************)
(* cipher/present.py: PRESENT.  A Python integer is held as its bits,      *)
(* least significant first: x[i + 1] is (x >> i) & 1, and the bits past    *)
(* the end of the sequence are zero.                                       *)
(***************************************************************************)
Sbox == <<12, 5, 6, 11, 9, 0, 10, 13, 3, 14, 15, 8, 4, 7, 1, 2>>
PBox ==
    <<0, 16, 32, 48, 1, 17, 33, 49, 2, 18, 34, 50, 3, 19, 35, 51,
      4, 20, 36, 52, 5, 21, 37, 53, 6, 22, 38, 54, 7, 23, 39, 55,
      8, 24, 40, 56, 9, 25, 41, 57, 10, 26, 42, 58, 11, 27, 43, 59,
      12, 28, 44, 60, 13, 29, 45, 61, 14, 30, 46, 62, 15, 31, 47, 63>>

\* table.index(x)
RECURSIVE IndexIn(_, _, _)
IndexIn(table, x, i) == IF table[i + 1] = x THEN i ELSE IndexIn(table, x, i + 1)

\* [table.index(x) for x in range(len(table))]
InverseOf(table) ==
    SubSeq([x \in 1..Len(table) |-> IndexIn(table, x - 1, 0)], 1, Len(table))

Sbox_inv == InverseOf(Sbox)
PBox_inv == InverseOf(PBox)

Max(a, b) == IF a > b THEN a ELSE b

\* (x >> i) & 1
Bit(x, i) == IF i < Len(x) THEN x[i + 1] ELSE 0

\* The n low bits of the small integer v.
RECURSIVE BitsOf(_, _)
BitsOf(v, n) == IF n = 0 THEN <<>> ELSE <<v % 2>> \o BitsOf(v \div 2, n - 1)

\* The small integer of a few bits.
RECURSIVE IntOf(_)
IntOf(bits) == IF bits = <<>> THEN 0 ELSE Head(bits) + 2 * IntOf(Tail(bits))

\* int.from_bytes(block, byteorder="big"): bit i is bit i mod 8 of the byte
\* i div 8 places from the end.
IntFromBytes(block) ==
    SubSeq([p \in 1..(8 * Len(block)) |->
               BitsOf(block[Len(block) - ((p - 1) \div 8)], 8)[((p - 1) % 8) + 1]],
           1, 8 * Len(block))

\* (x >> (8 * k)) & 0xFF
ByteAt(x, k) ==
    IntOf(<<Bit(x, 8 * k), Bit(x, 8 * k + 1), Bit(x, 8 * k + 2), Bit(x, 8 * k + 3),
            Bit(x, 8 * k + 4), Bit(x, 8 * k + 5), Bit(x, 8 * k + 6), Bit(x, 8 * k + 7)>>)

RECURSIVE BytesFrom(_, _, _)
BytesFrom(x, j, n) ==
    IF j > n THEN <<>> ELSE <<ByteAt(x, n - j)>> \o BytesFrom(x, j + 1, n)

\* x.to_bytes(n, byteorder="big"): OverflowError when x does not fit.
IntToBytes(x, n) ==
    IF \E i \in (8 * n)..(Len(x) - 1) : Bit(x, i) = 1 THEN Raise
    ELSE BytesFrom(x, 1, n)

\* a ^ b
XorBits(a, b) ==
    SubSeq([p \in 1..Max(Len(a), Len(b)) |-> (Bit(a, p - 1) + Bit(b, p - 1)) % 2],
           1, Max(Len(a), Len(b)))

\* v << n for a value of a few bits
ShiftedLeft(bits, n) == Repeat(<<0>>, n) \o bits

\* A round-key addition that leaves the state as it is.
addNoRoundKey(state, roundkey) == state

addRoundKey(state, roundkey) == XorBits(state, roundkey)

\* (state >> (i * 4)) & 0xF
Nibble(state, i) ==
    IntOf(<<Bit(state, 4 * i), Bit(state, 4 * i + 1),
            Bit(state, 4 * i + 2), Bit(state, 4 * i + 3)>>)

\* output += table[(state >> (i * 4)) & 0xF] << (i * 4), for i in range(16)
sBoxLayerWith(table, state) ==
    SubSeq([p \in 1..64 |->
               BitsOf(table[Nibble(state, (p - 1) \div 4) + 1], 4)[((p - 1) % 4) + 1]],
           1, 64)

sBoxLayer(state) == sBoxLayerWith(Sbox, state)
sBoxLayer_dec(state) == sBoxLayerWith(Sbox_inv, state)

\* output += ((state >> i) & 0x01) << box[i], for i in range(64): bit p of
\* the output is bit inverse[p] of the state.
pLayerWith(inverse, state) ==
    SubSeq([p \in 1..64 |-> Bit(state, inverse[p])], 1, 64)

pLayer(state) == pLayerWith(PBox_inv, state)
pLayer_dec(state) == pLayerWith(PBox, state)

\* generateRoundkeys80, the loop body after the append:
\* key = ((key & (2**19 - 1)) << 61) + (key >> 19)
Shift80(key) == SubSeq(key, 20, 80) \o SubSeq(key, 1, 19)
\* key = (Sbox[key >> 76] << 76) + (key & (2**76 - 1))
Box80(key) == SubSeq(key, 1, 76) \o BitsOf(Sbox[IntOf(SubSeq(key, 77, 80)) + 1], 4)
\* key ^= i << 15
Salt80(key, i) == XorBits(key, ShiftedLeft(BitsOf(i, 6), 15))

\* roundkeys.append(key >> 16), for i in range(1, rounds + 1)
RECURSIVE generateRoundkeys80Loop(_, _, _)
generateRoundkeys80Loop(key, i, rounds) ==
    IF i > rounds \/ Len(key) < 0 THEN <<>>
    ELSE <<SubSeq(key, 17, 80)>>
         \o generateRoundkeys80Loop(Salt80(Box80(Shift80(key)), i), i + 1, rounds)

generateRoundkeys80(key, rounds) == generateRoundkeys80Loop(key, 1, rounds)

\* generateRoundkeys128, the loop body after the append:
\* key = ((key & (2**67 - 1)) << 61) + (key >> 67)
Shift128(key) == SubSeq(key, 68, 128) \o SubSeq(key, 1, 67)
\* key = (Sbox[key >> 124] << 124) + (Sbox[(key >> 120) & 0xF] << 120)
\*       + (key & (2**120 - 1))
Box128(key) ==
    SubSeq(key, 1, 120)
    \o BitsOf(Sbox[IntOf(SubSeq(key, 121, 124)) + 1], 4)
    \o BitsOf(Sbox[IntOf(SubSeq(key, 125, 128)) + 1], 4)
\* key ^= i << 62
Salt128(key, i) == XorBits(key, ShiftedLeft(BitsOf(i, 6), 62))

\* roundkeys.append(key >> 64), for i in range(1, rounds + 1)
RECURSIVE generateRoundkeys128Loop(_, _, _)
generateRoundkeys128Loop(key, i, rounds) ==
    IF i > rounds \/ Len(key) < 0 THEN <<>>
    ELSE <<SubSeq(key, 65, 128)>>
         \o generateRoundkeys128Loop(Salt128(Box128(Shift128(key)), i), i + 1, rounds)

generateRoundkeys128(key, rounds) == generateRoundkeys128Loop(key, 1, rounds)

PresentRounds == 32

\* PresentCipher.__init__(key, rounds = 32): the object; roundkeys is Raise
\* for the ValueError of a key of any other width, which leaves no object.
PresentCipherInit(key, rounds) ==
    IF Len(key) * 8 = 80
    THEN [key |-> key, rounds |-> rounds,
          roundkeys |-> generateRoundkeys80(IntFromBytes(key), rounds)]
    ELSE IF Len(key) * 8 = 128
    THEN [key |-> key, rounds |-> rounds,
          roundkeys |-> generateRoundkeys128(IntFromBytes(key), rounds)]
    ELSE [key |-> key, rounds |-> rounds, roundkeys |-> Raise]

\* for i in range(self.rounds - 1): addRoundKey, sBoxLayer, pLayer
RECURSIVE PresentEncryptLoop(_, _, _)
PresentEncryptLoop(self, state, i) ==
    IF i >= self.rounds - 1 \/ Len(state) < 0 THEN state
    ELSE PresentEncryptLoop(self, pLayer(sBoxLayer(addRoundKey(state, self.roundkeys[i + 1]))),
                            i + 1)

\* PresentCipher.encrypt
PresentCipherEncrypt(self, block) ==
    IntToBytes(addRoundKey(PresentEncryptLoop(self, IntFromBytes(block), 0),
                           self.roundkeys[Len(self.roundkeys)]),
               8)

\* for i in range(self.rounds - 1): addRoundKey, pLayer_dec, sBoxLayer_dec
RECURSIVE PresentDecryptLoop(_, _, _)
PresentDecryptLoop(self, state, i) ==
    IF i >= self.rounds - 1 \/ Len(state) < 0 THEN state
    ELSE PresentDecryptLoop(self,
            sBoxLayer_dec(pLayer_dec(addRoundKey(state,
                                                 self.roundkeys[Len(self.roundkeys) - i]))),
            i + 1)

\* PresentCipher.decrypt
PresentCipherDecrypt(self, block) ==
    IntToBytes(addRoundKey(PresentDecryptLoop(self, IntFromBytes(block), 0),
                           self.roundkeys[1]),
               8)

(***************************************************************************)
(* PRESENT cipher objects: one is constructed from a key, single blocks    *)
(* are encrypted on it and the results decrypted.  A constructor call     *)
(* that raised leaves a slot with no round keys: there is no object.       *)
(***************************************************************************)
MaxPresent == 1

ZeroKey80 == <<0, 0, 0, 0, 0, 0, 0, 0, 0, 0>>
DocKey128 == <<1, 35, 69, 103, 137, 171, 205, 239, 1, 35, 69, 103, 137, 171, 205, 239>>
ZeroBlock64 == <<0, 0, 0, 0, 0, 0, 0, 0>>
DocBlock64 == <<1, 35, 69, 103, 137, 171, 205, 239>>

\* Keys of 80, 128 and 72 bits; blocks of 64, 56 and 72 bits.
PresentKeys == {ZeroKey80, DocKey128, <<255, 254, 3, 4, 5, 6, 7, 8, 9, 10>>,
                <<1, 2, 3, 4, 5, 6, 7, 8, 9>>}
PresentBlocks == {ZeroBlock64, DocBlock64, <<1, 2, 3, 4, 5, 6, 7>>,
                  <<9, 1, 2, 3, 4, 5, 6, 7, 8>>}

\* cipher = PresentCipher(key)
NewPresent(key) ==
    /\ Len(instances) < MaxPresent
    /\ instances' = Append(instances, PresentCipherInit(key, PresentRounds))
    /\ UNCHANGED <<calls, rk, wk, nr, nrk, modeVars>>

\* y = cipher.encrypt(x)
PresentEncryptOn(c, x) ==
    /\ instances[c].roundkeys # Raise
    /\ Len(calls) < MaxBlocks
    /\ calls' = Append(calls, [cipher |-> c, pt |-> x,
                               ct |-> PresentCipherEncrypt(instances[c], x), rt |-> None])
    /\ UNCHANGED <<instances, rk, wk, nr, nrk, modeVars>>

\* cipher.decrypt(y) for the y of an earlier cipher.encrypt
PresentDecryptOf(b) ==
    /\ calls[b].rt = None
    /\ calls[b].ct # Raise
    /\ calls' = [calls EXCEPT ![b].rt =
                    PresentCipherDecrypt(instances[calls[b].cipher], calls[b].ct)]
    /\ UNCHANGED <<instances, rk, wk, nr, nrk, modeVars>>

NextPresent ==
    \/ \E key \in PresentKeys : NewPresent(key)
    \/ \E c \in 1..Len(instances), x \in PresentBlocks : PresentEncryptOn(c, x)
    \/ \E b \in 1..Len(calls) : PresentDecryptOf(b)

SpecPresent == InitCipher /\ [][NextPresent]_vars

\* One round of PRESENT as published: the round key is added, every nibble
\* goes through the S-box, and bit i moves to position 16 * i mod 63 (bit 63
\* stays), so that bit q of the result is bit 4 * q mod 63 of the S-box layer.
RoundSource(q) == IF q = 63 THEN 63 ELSE (4 * q) % 63

SboxThenMove(keyed) ==
    SubSeq([p \in 1..64 |->
               BitsOf(Sbox[Nibble(keyed, RoundSource(p - 1) \div 4) + 1],
                      4)[(RoundSource(p - 1) % 4) + 1]],
           1, 64)

RoundOf(state, roundkey) == SboxThenMove(XorBits(state, roundkey))

\* The state after rounds i..n, each with its own round key.
RECURSIVE AfterRounds(_, _, _, _)
AfterRounds(roundkeys, state, i, n) ==
    IF i > n \/ Len(state) < 0 THEN state
    ELSE AfterRounds(roundkeys, RoundOf(state, roundkeys[i]), i + 1, n)

CipherOf(b) == instances[calls[b].cipher]

\* C17: a PRESENT object holds 32 round keys of 64 bits; encrypt of a
\* 64-bit block is 31 rounds of addRoundKey, sBoxLayer, pLayer and a final
\* addRoundKey; the 80-bit zero key takes the zero block to
\* 5579c1387b228445 and the key 0123456789abcdef0123456789abcdef takes
\* 0123456789abcdef to 0e9d28685e671dd6; decrypt recovers the plaintext.
C17_Present ==
    /\ \A c \in 1..Len(instances) :
          instances[c].roundkeys # Raise
          => /\ Len(instances[c].roundkeys) = 32
             /\ \A i \in 1..32 : Len(instances[c].roundkeys[i]) = 64
    /\ \A b \in 1..Len(calls) :
          Len(calls[b].pt) = 8
          => /\ calls[b].ct
                = IntToBytes(XorBits(AfterRounds(CipherOf(b).roundkeys,
                                                 IntFromBytes(calls[b].pt), 1, 31),
                                     CipherOf(b).roundkeys[32]), 8)
             /\ (CipherOf(b).key = ZeroKey80 /\ calls[b].pt = ZeroBlock64)
                   => calls[b].ct = <<85, 121, 193, 56, 123, 34, 132, 69>>
             /\ (CipherOf(b).key = DocKey128 /\ calls[b].pt = DocBlock64)
                   => calls[b].ct = <<14, 157, 40, 104, 94, 103, 29, 214>>
             /\ calls[b].rt # None => calls[b].rt = calls[b].pt

\* The 128-bit vector and the zero block under the same key, encrypted and
\* decrypted again.
C17_Witness ==
    /\ Len(calls) = 2
    /\ CipherOf(1).key = DocKey128
    /\ calls[1].pt = DocBlock64
    /\ calls[1].ct = <<14, 157, 40, 104, 94, 103, 29, 214>>
    /\ calls[1].rt = DocBlock64
    /\ calls[2].pt = ZeroBlock64
    /\ calls[2].rt = ZeroBlock64


\* C18: a PRESENT constructor given a key of a width other than 80 or 128
\* bits raises and leaves no object, and encrypt given a block of a width
\* other than 64 bits raises instead of returning a ciphertext.
C18_SizeMismatch ==
    /\ \A c \in 1..Len(instances) :
          Len(instances[c].key) * 8 \notin {80, 128}
          => instances[c].roundkeys = Raise
    /\ \A b \in 1..Len(calls) :
          Len(calls[b].pt) * 8 # 64 => calls[b].ct = Raise

(***************************************************************************)
(* cipher/des.py, over cipher/utils.py and cipher/components.  A data      *)
(* object is a bytes object or a list of binary values; an exception       *)
(* raised on the way replaces the value and is carried to the caller.      *)
(* Integers are sequences of bits, least significant first, as above.      *)
(***************************************************************************)
ROUND_COUNT == 16
KEY_SIZE_WITH_PARITY == 64

BytesObject(data) == [type |-> "bytes", data |-> data]
ListObject(data) == [type |-> "list", data |-> data]
ErrorObject == [type |-> "error", data |-> <<>>]

\* The bits of a Python int, least significant first, none above the highest
\* bit set.
RECURSIVE Trim(_)
Trim(bits) ==
    IF bits = <<>> \/ bits[Len(bits)] = 1 THEN bits
    ELSE Trim(SubSeq(bits, 1, Len(bits) - 1))

IntObject(bits) == [type |-> "int", data |-> Trim(bits)]

\* The bytes of int.to_bytes, or the OverflowError it raised.
BytesOrError(b) == IF b = Raise THEN ErrorObject ELSE BytesObject(b)

\* utils.input_size: len(hex(data)[2:]) << 2 of an int, len(data) << 3 of
\* bytes, len(data) of a list.
input_size(data) ==
    IF data.type = "int" THEN 4 * Max(1, (Len(data.data) + 3) \div 4)
    ELSE IF data.type = "bytes" THEN Len(data.data) * 8
    ELSE Len(data.data)

\* byte_count = bit_count >> 3; if (byte_count << 3) < bit_count: byte_count += 1
byte_count(bit_count) ==
    IF (bit_count \div 8) * 8 < bit_count THEN (bit_count \div 8) + 1
    ELSE bit_count \div 8

\* a | b
OrBits(a, b) ==
    SubSeq([p \in 1..Max(Len(a), Len(b)) |-> Max(Bit(a, p - 1), Bit(b, p - 1))],
           1, Max(Len(a), Len(b)))

\* utils.binary_split
binary_split(data) ==
    LET data_half_size == input_size(data) \div 2
        data_bits == IntFromBytes(data.data)
    IN  IF data.type = "error" THEN <<data, data>>
        ELSE IF data.type = "bytes"
        THEN <<BytesOrError(IntToBytes(SubSeq(data_bits, data_half_size + 1,
                                              Len(data_bits)),
                                       byte_count(data_half_size))),
               BytesOrError(IntToBytes(SubSeq(data_bits, 1, data_half_size),
                                       byte_count(data_half_size)))>>
        ELSE <<ListObject(SubSeq(data.data, 1, data_half_size)),
               ListObject(SubSeq(data.data, data_half_size + 1, Len(data.data)))>>

\* length = None
NoLength == -1

\* A join that always shifts by the size of the first chunk, as if no length
\* had been given.
binary_joinByChunkSize(chunk_1, chunk_2, length) ==
    IF chunk_1.type = "error" \/ chunk_2.type = "error" THEN ErrorObject
    ELSE IF chunk_1.type = "bytes"
    THEN BytesOrError(IntToBytes(OrBits(ShiftedLeft(IntFromBytes(chunk_1.data),
                                                    input_size(chunk_1)),
                                        IntFromBytes(chunk_2.data)),
                                 input_size(chunk_1) \div 4))
    ELSE ListObject(chunk_1.data \o chunk_2.data)

\* utils.binary_join
binary_join(chunk_1, chunk_2, length) ==
    LET len == IF length = NoLength THEN input_size(chunk_1) ELSE length
    IN  IF chunk_1.type = "error" \/ chunk_2.type = "error" THEN ErrorObject
        ELSE IF chunk_1.type = "bytes"
        THEN BytesOrError(IntToBytes(OrBits(ShiftedLeft(IntFromBytes(chunk_1.data), len),
                                            IntFromBytes(chunk_2.data)),
                                     len \div 4))
        ELSE ListObject(chunk_1.data \o chunk_2.data)

\* utils.circular_shift_left, with length given.  On bytes the bits under
\* shift_mask are cleared, the rest moves up by positions and the bits that
\* were under the mask come in at the bottom.
circular_shift_left(data, positions, length) ==
    LET pos == positions % length
        data_bits == IntFromBytes(data.data)
        size == Len(data_bits)
    IN  IF data.type = "error" THEN data
        ELSE IF data.type = "bytes"
        THEN BytesOrError(IntToBytes(
                 SubSeq([p \in 1..(size + pos) |->
                            IF p <= pos THEN Bit(data_bits, length - pos + p - 1)
                            ELSE IF length - pos <= p - pos - 1 /\ p - pos - 1 < length
                            THEN 0
                            ELSE data_bits[p - pos]],
                        1, size + pos),
                 input_size(data) \div 8))
        ELSE ListObject(SubSeq(data.data, pos + 1, Len(data.data))
                        \o SubSeq(data.data, 1, pos))

\* data[lo : hi] of a list, lo and hi counted from 0 and cut to the list.
ListSlice(data, lo, hi) == SubSeq(data, lo + 1, Min(hi, Len(data)))

\* utils.n_ary_split: the chunks, highest first; of a bytes object each in
\* byte_count(chunk_size) bytes, of an int each an int, of a list the
\* slices data[index : index + chunk_size] for index in
\* range(0, data_size, chunk_size).  data_size = None or 0 stands for
\* input_size(data); a chunk_size of 0 raises (one ErrorObject is returned).
n_ary_split(data, chunk_size, data_size) ==
    LET size == IF data_size = NoLength \/ data_size = 0 THEN input_size(data)
                ELSE data_size
        data_bits == IF data.type = "bytes" THEN IntFromBytes(data.data)
                     ELSE data.data
        n == size \div chunk_size
        chunk(i) == SubSeq([q \in 1..chunk_size |->
                               Bit(data_bits, (n - i) * chunk_size + q - 1)],
                           1, chunk_size)
        m == (size + chunk_size - 1) \div chunk_size
    IN  IF data.type = "error" \/ chunk_size = 0 THEN <<ErrorObject>>
        ELSE IF data.type = "bytes"
        THEN [i \in 1..n |->
                 BytesOrError(IntToBytes(chunk(i), byte_count(chunk_size)))]
        ELSE IF data.type = "int"
        THEN [i \in 1..n |-> IntObject(chunk(i))]
        ELSE [i \in 1..m |->
                 ListObject(ListSlice(data.data, (i - 1) * chunk_size,
                                      i * chunk_size))]

\* for chunk in chunks: data <<= chunk_size; data |= chunk
RECURSIVE n_ary_joinLoop(_, _, _, _)
n_ary_joinLoop(chunks, chunk_size, data, i) ==
    IF i > Len(chunks) \/ Len(data) < 0 THEN data
    ELSE n_ary_joinLoop(chunks, chunk_size,
                        OrBits(ShiftedLeft(data, chunk_size),
                               IF chunks[i].type = "bytes"
                               THEN IntFromBytes(chunks[i].data)
                               ELSE chunks[i].data),
                        i + 1)

\* sum(chunks, [])
RECURSIVE SumLists(_, _)
SumLists(chunks, i) ==
    IF i > Len(chunks) THEN <<>> ELSE chunks[i].data \o SumLists(chunks, i + 1)

\* utils.n_ary_join: of bytes chunks the joined int in data_size >> 3 bytes,
\* data_size = None or 0 standing for input_size of the joined int; of int
\* chunks the joined int; of lists their concatenation.  chunks[0] of no
\* chunks raises.
n_ary_join(chunks, chunk_size, data_size) ==
    IF Len(chunks) = 0 \/ \E i \in 1..Len(chunks) : chunks[i].type = "error"
    THEN ErrorObject
    ELSE IF chunks[1].type = "bytes"
    THEN BytesOrError(IntToBytes(
             n_ary_joinLoop(chunks, chunk_size, <<>>, 1),
             (IF data_size = NoLength \/ data_size = 0
              THEN input_size(IntObject(n_ary_joinLoop(chunks, chunk_size, <<>>, 1)))
              ELSE data_size) \div 8))
    ELSE IF chunks[1].type = "int"
    THEN IntObject(n_ary_joinLoop(chunks, chunk_size, <<>>, 1))
    ELSE ListObject(SumLists(chunks, 1))

(***************************************************************************)
(* cipher/components: permutation boxes, substitution boxes, XorKey.       *)
(***************************************************************************)
\* self.lookup_table = [position - start for position in lookup_table]
LookupTable(lookup_table, start) ==
    [i \in 1..Len(lookup_table) |-> lookup_table[i] - start]

\* StraightPBox.__init__: inverse_lookup_table = list(range(len(lookup_table)))
\* and then inverse_lookup_table[position] = index for each entry in turn.
InverseLookupTable(lookup_table) ==
    LET at(p) == {i \in 1..Len(lookup_table) : lookup_table[i] = p}
    IN  SubSeq([p \in 1..Len(lookup_table) |->
                   IF at(p - 1) = {} THEN p - 1
                   ELSE (CHOOSE i \in at(p - 1) : \A j \in at(p - 1) : j <= i) - 1],
               1, Len(lookup_table))

\* for index, position in enumerate(lookup_table):
\*     if (bits >> (size - position - 1)) & 1:
\*         permuted_bits |= (1 << (out_size - index - 1))
PermutedBits(lookup_table, bits, size, out_size) ==
    SubSeq([p \in 1..out_size |->
               Bit(bits, size - lookup_table[out_size - p + 1] - 1)],
           1, out_size)

\* plaintext[position] of a list: a negative position counts from the end.
ListIndex(data, position) ==
    IF position < 0 THEN Len(data) + position + 1 ELSE position + 1

\* The body the encrypt and decrypt of every P-box share: on bytes the loop
\* above and to_bytes, on an int the loop alone, on a list
\* [plaintext[position] for position in lookup_table].  A shift by a
\* negative count is a ValueError, a position outside the list an IndexError.
PBoxEncrypt(lookup_table, plaintext) ==
    IF plaintext.type \in {"bytes", "int"}
    THEN IF \E i \in 1..Len(lookup_table) :
               input_size(plaintext) - lookup_table[i] - 1 < 0
         THEN ErrorObject
         ELSE IF plaintext.type = "bytes"
         THEN BytesOrError(IntToBytes(PermutedBits(lookup_table,
                                                   IntFromBytes(plaintext.data),
                                                   input_size(plaintext),
                                                   Len(lookup_table)),
                                      Len(lookup_table) \div 8))
         ELSE IntObject(PermutedBits(lookup_table, plaintext.data,
                                     input_size(plaintext), Len(lookup_table)))
    ELSE IF \E i \in 1..Len(lookup_table) :
               ListIndex(plaintext.data, lookup_table[i])
                   \notin 1..Len(plaintext.data)
         THEN ErrorObject
         ELSE ListObject(SubSeq([i \in 1..Len(lookup_table) |->
                                    plaintext.data[ListIndex(plaintext.data,
                                                             lookup_table[i])]],
                                1, Len(lookup_table)))

\* StraightPBox(table, start = 1).encrypt
StraightPBoxEncrypt(table, plaintext) ==
    IF plaintext.type = "error" THEN plaintext
    ELSE IF input_size(plaintext) # Len(table) THEN ErrorObject
    ELSE PBoxEncrypt(LookupTable(table, 1), plaintext)

\* StraightPBox(table, start = 1).decrypt
StraightPBoxDecrypt(table, ciphertext) ==
    IF ciphertext.type = "error" THEN ciphertext
    ELSE IF input_size(ciphertext) # Len(table) THEN ErrorObject
    ELSE PBoxEncrypt(InverseLookupTable(LookupTable(table, 1)), ciphertext)

\* ExpansionPBox(table, start = 1).encrypt
ExpansionPBoxEncrypt(table, plaintext) ==
    IF plaintext.type = "error" THEN plaintext
    ELSE PBoxEncrypt(LookupTable(table, 1), plaintext)

\* CompressionPBox(table, start = 1).encrypt
CompressionPBoxEncrypt(table, plaintext) ==
    IF plaintext.type = "error" THEN plaintext
    ELSE PBoxEncrypt(LookupTable(table, 1), plaintext)

\* des.cell_index of a bytes chunk: (row, column)
cell_index(data) ==
    LET bits == IntFromBytes(data.data)
    IN  <<2 * Bit(bits, 5) + Bit(bits, 0),
          IntOf(<<Bit(bits, 1), Bit(bits, 2), Bit(bits, 3), Bit(bits, 4)>>)>>

\* SBox(substitution_table, index_mapping = cell_index).encrypt of a bytes
\* chunk: the table value, an integer of one hex digit, in one byte.
SBoxEncrypt(substitution_table, plaintext) ==
    IF plaintext.type = "error" THEN plaintext
    ELSE BytesObject(<<substitution_table[cell_index(plaintext)[1] + 1]
                                          [cell_index(plaintext)[2] + 1]>>)

\* HorizontalPipeline.__init__
HorizontalPipelineInit(ciphers, in_size, out_size) ==
    [ciphers |-> ciphers, input_size |-> in_size, output_size |-> out_size,
     input_chunk_size |-> in_size \div Len(ciphers),
     output_chunk_size |-> out_size \div Len(ciphers)]

\* chunks = [cipher.encrypt(chunk) for cipher, chunk in zip(ciphers, chunks)]
EncryptedChunks(ciphers, chunks) ==
    SubSeq([i \in 1..Min(Len(ciphers), Len(chunks)) |->
               SBoxEncrypt(ciphers[i], chunks[i])],
           1, Min(Len(ciphers), Len(chunks)))

\* HorizontalPipeline.encrypt
HorizontalPipelineEncrypt(self, plaintext) ==
    IF plaintext.type = "error" THEN plaintext
    ELSE IF input_size(plaintext) # self.input_size THEN ErrorObject
    ELSE n_ary_join(EncryptedChunks(self.ciphers,
                                    n_ary_split(plaintext, self.input_chunk_size,
                                                self.input_size)),
                    self.output_chunk_size, self.output_size)

\* int.from_bytes of a bytes object, the int itself of an int.
BitsOfObject(data) ==
    IF data.type = "bytes" THEN IntFromBytes(data.data) ELSE data.data

\* XorKey(key).encrypt: ValueError on unequal sizes, TypeError when one of
\* key and data is a list and the other an int or bytes; the result has the
\* type of the plaintext.
XorKeyEncrypt(key, plaintext) ==
    IF plaintext.type = "error" THEN plaintext
    ELSE IF input_size(key) # input_size(plaintext) THEN ErrorObject
    ELSE IF plaintext.type \in {"bytes", "int"}
    THEN IF key.type \notin {"bytes", "int"} THEN ErrorObject
         ELSE IF plaintext.type = "bytes"
         THEN BytesOrError(IntToBytes(XorBits(IntFromBytes(plaintext.data),
                                              BitsOfObject(key)),
                                      input_size(plaintext) \div 8))
         ELSE IntObject(XorBits(plaintext.data, BitsOfObject(key)))
    ELSE IF key.type \in {"bytes", "int"} THEN ErrorObject
    ELSE ListObject(SubSeq([i \in 1..Len(plaintext.data) |->
                               (key.data[i] + plaintext.data[i]) % 2],
                           1, Len(plaintext.data)))

(***************************************************************************)
(* cipher/des.py: the tables, the key schedule, DES and TripleDES.         *)
(***************************************************************************)
\* The table of INITIAL_PERMUTATION_BOX, numbered from start = 1.
INITIAL_PERMUTATION_BOX ==
    <<58, 50, 42, 34, 26, 18, 10, 2,
      60, 52, 44, 36, 28, 20, 12, 4,
      62, 54, 46, 38, 30, 22, 14, 6,
      64, 56, 48, 40, 32, 24, 16, 8,
      57, 49, 41, 33, 25, 17, 9, 1,
      59, 51, 43, 35, 27, 19, 11, 3,
      61, 53, 45, 37, 29, 21, 13, 5,
      63, 55, 47, 39, 31, 23, 15, 7>>

\* The table of IN_ROUND_EXPANSION_PBOX (start = 1).
IN_ROUND_EXPANSION_PBOX ==
    <<32, 1, 2, 3, 4, 5,
      4, 5, 6, 7, 8, 9,
      8, 9, 10, 11, 12, 13,
      12, 13, 14, 15, 16, 17,
      16, 17, 18, 19, 20, 21,
      20, 21, 22, 23, 24, 25,
      24, 25, 26, 27, 28, 29,
      28, 29, 30, 31, 32, 1>>

\* The substitution tables of the eight SBox components of
\* IN_ROUND_SUBSTITUTION_BOXES, each of four rows of sixteen values.
SubstitutionTables ==
    <<<<<<14, 4, 13, 1, 2, 15, 11, 8, 3, 10, 6, 12, 5, 9, 0, 7>>,
        <<0, 15, 7, 4, 14, 2, 13, 1, 10, 6, 12, 11, 9, 5, 3, 8>>,
        <<4, 1, 14, 8, 13, 6, 2, 11, 15, 12, 9, 7, 3, 10, 5, 0>>,
        <<15, 12, 8, 2, 4, 9, 1, 7, 5, 11, 3, 14, 10, 0, 6, 13>>>>,
      <<<<15, 1, 8, 14, 6, 11, 3, 4, 9, 7, 2, 13, 12, 0, 5, 10>>,
        <<3, 13, 4, 7, 15, 2, 8, 14, 12, 0, 1, 10, 6, 9, 11, 5>>,
        <<0, 14, 7, 11, 10, 4, 13, 1, 5, 8, 12, 6, 9, 3, 2, 15>>,
        <<13, 8, 10, 1, 3, 15, 4, 2, 11, 6, 7, 12, 0, 5, 14, 9>>>>,
      <<<<10, 0, 9, 14, 6, 3, 15, 5, 1, 13, 12, 7, 11, 4, 2, 8>>,
        <<13, 7, 0, 9, 3, 4, 6, 10, 2, 8, 5, 14, 12, 11, 15, 1>>,
        <<13, 6, 4, 9, 8, 15, 3, 0, 11, 1, 2, 12, 5, 10, 14, 7>>,
        <<1, 10, 13, 0, 6, 9, 8, 7, 4, 15, 14, 3, 11, 5, 2, 12>>>>,
      <<<<7, 13, 14, 3, 0, 6, 9, 10, 1, 2, 8, 5, 11, 12, 4, 15>>,
        <<13, 8, 11, 5, 6, 15, 0, 3, 4, 7, 2, 12, 1, 10, 14, 9>>,
        <<10, 6, 9, 0, 12, 11, 7, 13, 15, 1, 3, 14, 5, 2, 8, 4>>,
        <<3, 15, 0, 6, 10, 1, 13, 8, 9, 4, 5, 11, 12, 7, 2, 14>>>>,
      <<<<2, 12, 4, 1, 7, 10, 11, 6, 8, 5, 3, 15, 13, 0, 14, 9>>,
        <<14, 11, 2, 12, 4, 7, 13, 1, 5, 0, 15, 10, 3, 9, 8, 6>>,
        <<4, 2, 1, 11, 10, 13, 7, 8, 15, 9, 12, 5, 6, 3, 0, 14>>,
        <<11, 8, 12, 7, 1, 14, 2, 13, 6, 15, 0, 9, 10, 4, 5, 3>>>>,
      <<<<12, 1, 10, 15, 9, 2, 6, 8, 0, 13, 3, 4, 14, 7, 5, 11>>,
        <<10, 15, 4, 2, 7, 12, 9, 5, 6, 1, 13, 14, 0, 11, 3, 8>>,
        <<9, 14, 15, 5, 2, 8, 12, 3, 7, 0, 4, 10, 1, 13, 11, 6>>,
        <<4, 3, 2, 12, 9, 5, 15, 10, 11, 14, 1, 7, 6, 0, 8, 13>>>>,
      <<<<4, 11, 2, 14, 15, 0, 8, 13, 3, 12, 9, 7, 5, 10, 6, 1>>,
        <<13, 0, 11, 7, 4, 9, 1, 10, 14, 3, 5, 12, 2, 15, 8, 6>>,
        <<1, 4, 11, 13, 12, 3, 7, 14, 10, 15, 6, 8, 0, 5, 9, 2>>,
        <<6, 11, 13, 8, 1, 4, 10, 7, 9, 5, 0, 15, 14, 2, 3, 12>>>>,
      <<<<13, 2, 8, 4, 6, 15, 11, 1, 10, 9, 3, 14, 5, 0, 12, 7>>,
        <<1, 15, 13, 8, 10, 3, 7, 4, 12, 5, 6, 11, 0, 14, 9, 2>>,
        <<7, 11, 4, 1, 9, 12, 14, 2, 0, 6, 10, 13, 15, 3, 5, 8>>,
        <<2, 1, 14, 7, 4, 10, 8, 13, 15, 12, 9, 0, 3, 5, 6, 11>>>>>>

\* The table of IN_ROUND_STRAIGHT_PBOX (start = 1).
IN_ROUND_STRAIGHT_PBOX ==
    <<16, 7, 20, 21,
      29, 12, 28, 17,
      1, 15, 23, 26,
      5, 18, 31, 10,
      2, 8, 24, 14,
      32, 27, 3, 9,
      19, 13, 30, 6,
      22, 11, 4, 25>>

KEY_SHIFT_SCHEDULE == <<1, 1, 2, 2, 2, 2, 2, 2, 1, 2, 2, 2, 2, 2, 2, 1>>

\* The table of INITIAL_KEY_PERMUTED_CHOICE_BOX (start = 1).
INITIAL_KEY_PERMUTED_CHOICE_BOX ==
    <<57, 49, 41, 33, 25, 17, 9,
      1, 58, 50, 42, 34, 26, 18,
      10, 2, 59, 51, 43, 35, 27,
      19, 11, 3, 60, 52, 44, 36,
      63, 55, 47, 39, 31, 23, 15,
      7, 62, 54, 46, 38, 30, 22,
      14, 6, 61, 53, 45, 37, 29,
      21, 13, 5, 28, 20, 12, 4>>

\* The table of IN_ROUND_KEY_PERMUTED_CHOICE_BOX (start = 1).
IN_ROUND_KEY_PERMUTED_CHOICE_BOX ==
    <<14, 17, 11, 24, 1, 5,
      3, 28, 15, 6, 21, 10,
      23, 19, 12, 4, 26, 8,
      16, 7, 27, 20, 13, 2,
      41, 52, 31, 37, 47, 55,
      30, 40, 51, 45, 33, 48,
      44, 49, 39, 56, 34, 53,
      46, 42, 50, 36, 29, 32>>

\* IN_ROUND_SUBSTITUTION_BOXES = HorizontalPipeline([SBox(...), ...],
\*                                                  input_size = 48, output_size = 32)
IN_ROUND_SUBSTITUTION_BOXES == HorizontalPipelineInit(SubstitutionTables, 48, 32)

\* bit_xor over the eight bits of a key byte
ByteParity(byte) ==
    (BitsOf(byte, 8)[1] + BitsOf(byte, 8)[2] + BitsOf(byte, 8)[3] + BitsOf(byte, 8)[4]
     + BitsOf(byte, 8)[5] + BitsOf(byte, 8)[6] + BitsOf(byte, 8)[7]
     + BitsOf(byte, 8)[8]) % 2

\* for round_shift in KEY_SHIFT_SCHEDULE: both halves are shifted, joined
\* and compressed to the round key.
RECURSIVE generate_round_keysLoop(_, _, _, _, _)
RECURSIVE generate_round_keysBody(_, _, _, _, _)
generate_round_keysBody(key_left, key_right, key_half_size, round_keys, i) ==
    generate_round_keysLoop(
        key_left, key_right, key_half_size,
        Append(round_keys,
               CompressionPBoxEncrypt(IN_ROUND_KEY_PERMUTED_CHOICE_BOX,
                                      binary_join(key_left, key_right, key_half_size))),
        i + 1)

generate_round_keysLoop(key_left, key_right, key_half_size, round_keys, i) ==
    IF i > Len(KEY_SHIFT_SCHEDULE) \/ Len(round_keys) < 0 THEN round_keys
    ELSE generate_round_keysBody(
             circular_shift_left(key_left, KEY_SHIFT_SCHEDULE[i], key_half_size),
             circular_shift_left(key_right, KEY_SHIFT_SCHEDULE[i], key_half_size),
             key_half_size, round_keys, i)

\* The key schedule from the key after INITIAL_KEY_PERMUTED_CHOICE_BOX.
RoundKeysFrom(key) ==
    generate_round_keysLoop(binary_split(key)[1], binary_split(key)[2],
                            input_size(key) \div 2, <<>>, 1)

\* generate_round_keys: the round keys, or the message of the ValueError.
generate_round_keys(key, validate_key) ==
    IF input_size(key) # KEY_SIZE_WITH_PARITY
    THEN [round_keys |-> <<>>, error |-> "incorrect key size"]
    ELSE IF /\ validate_key
            /\ key.type = "bytes"
            /\ \E i \in 1..Len(key.data) : ByteParity(key.data[i]) # 0
    THEN [round_keys |-> <<>>, error |-> "parity mismatch in possibly corrupted key"]
    ELSE [round_keys |->
              RoundKeysFrom(CompressionPBoxEncrypt(INITIAL_KEY_PERMUTED_CHOICE_BOX, key)),
          error |-> ""]

DESBlockSize == 64

\* DES.__init__; validate_key is the argument of the call.
DESInit(key, validate_key) ==
    [class |-> "DES", key |-> key, validate_key |-> validate_key,
     round_keys |-> generate_round_keys(key, validate_key).round_keys,
     error |-> generate_round_keys(key, validate_key).error]

\* round_function = Pipeline([IN_ROUND_EXPANSION_PBOX, XorKey(round_key),
\*     IN_ROUND_SUBSTITUTION_BOXES, IN_ROUND_STRAIGHT_PBOX,
\*     XorKey(left_subblock)], order = ORIGINAL); round_function.encrypt(right_subblock)
round_function(round_key, left_subblock, right_subblock) ==
    XorKeyEncrypt(left_subblock,
        StraightPBoxEncrypt(IN_ROUND_STRAIGHT_PBOX,
            HorizontalPipelineEncrypt(IN_ROUND_SUBSTITUTION_BOXES,
                XorKeyEncrypt(round_key,
                    ExpansionPBoxEncrypt(IN_ROUND_EXPANSION_PBOX, right_subblock)))))

\* for round in range(ROUND_COUNT), with self.round_keys[round]
RECURSIVE DESEncryptLoop(_, _, _, _)
DESEncryptLoop(self, left_subblock, right_subblock, round) ==
    IF round >= ROUND_COUNT \/ Len(right_subblock.data) < 0
    THEN <<left_subblock, right_subblock>>
    ELSE DESEncryptLoop(self, right_subblock,
                        round_function(self.round_keys[round + 1],
                                       left_subblock, right_subblock),
                        round + 1)

\* for round in range(ROUND_COUNT), with self.round_keys[ROUND_COUNT - round - 1]
RECURSIVE DESDecryptLoop(_, _, _, _)
DESDecryptLoop(self, left_subblock, right_subblock, round) ==
    IF round >= ROUND_COUNT \/ Len(right_subblock.data) < 0
    THEN <<left_subblock, right_subblock>>
    ELSE DESDecryptLoop(self, right_subblock,
                        round_function(self.round_keys[ROUND_COUNT - round],
                                       left_subblock, right_subblock),
                        round + 1)

\* binary_join(right_subblock, left_subblock), then INITIAL_PERMUTATION_BOX.decrypt
FinalPermutation(subblocks) ==
    StraightPBoxDecrypt(INITIAL_PERMUTATION_BOX,
                        binary_join(subblocks[2], subblocks[1], NoLength))

\* left_subblock, right_subblock = utils.binary_split(...) and the rounds
DESEncryptRounds(self, subblocks) ==
    FinalPermutation(DESEncryptLoop(self, subblocks[1], subblocks[2], 0))

DESDecryptRounds(self, subblocks) ==
    FinalPermutation(DESDecryptLoop(self, subblocks[1], subblocks[2], 0))

\* DES.encrypt
DESEncrypt(self, plaintext) ==
    IF input_size(plaintext) # DESBlockSize THEN ErrorObject
    ELSE DESEncryptRounds(self,
             binary_split(StraightPBoxEncrypt(INITIAL_PERMUTATION_BOX, plaintext)))

\* DES.decrypt
DESDecrypt(self, ciphertext) ==
    IF input_size(ciphertext) # DESBlockSize THEN ErrorObject
    ELSE DESDecryptRounds(self,
             binary_split(StraightPBoxEncrypt(INITIAL_PERMUTATION_BOX, ciphertext)))

TripleDESKeySize == 128

\* for cipher in ciphers: ciphertext = cipher.encrypt(ciphertext), the
\* components being DES objects
RECURSIVE DESPipelineEncryptLoop(_, _)
DESPipelineEncryptLoop(ciphers, ciphertext) ==
    IF ciphers = <<>> THEN ciphertext
    ELSE DESPipelineEncryptLoop(Tail(ciphers), DESEncrypt(Head(ciphers), ciphertext))

RECURSIVE DESPipelineDecryptLoop(_, _)
DESPipelineDecryptLoop(ciphers, plaintext) ==
    IF ciphers = <<>> THEN plaintext
    ELSE DESPipelineDecryptLoop(Tail(ciphers), DESDecrypt(Head(ciphers), plaintext))

\* key[lo:hi] of a data object
SliceOf(key, lo, hi) == [type |-> key.type, data |-> Slice(key.data, lo, hi)]

\* self.cipher = pipeline.Pipeline([des_1, des_2, des_1]); a ValueError of
\* either DES constructor is the error of this one; key is the argument of
\* the call.
TripleDESObject(key, des_1, des_2) ==
    [class |-> "TripleDES", key |-> key,
     cipher |-> NewPipelineObject(<<des_1, des_2, des_1>>, "NATURAL"),
     error |-> IF des_1.error # "" THEN des_1.error ELSE des_2.error]

\* A TripleDES whose second key is its first.
TripleDESInitOneKey(key, validate_key) ==
    TripleDESObject(key,
                    DESInit(SliceOf(key, 0, TripleDESKeySize \div 16), validate_key),
                    DESInit(SliceOf(key, 0, TripleDESKeySize \div 16), validate_key))

\* TripleDES.__init__
TripleDESInit(key, validate_key) ==
    TripleDESObject(key,
                    DESInit(SliceOf(key, 0, TripleDESKeySize \div 16), validate_key),
                    DESInit(SliceOf(key, TripleDESKeySize \div 16, Len(key.data)),
                            validate_key))

\* TripleDES.encrypt: Pipeline.encrypt
TripleDESEncrypt(self, plaintext) ==
    DESPipelineEncryptLoop(self.cipher.ciphers, plaintext)

\* TripleDES.decrypt: Pipeline.decrypt
TripleDESDecrypt(self, ciphertext) ==
    IF self.cipher.process_order = "ORIGINAL"
    THEN DESPipelineDecryptLoop(self.cipher.ciphers, ciphertext)
    ELSE DESPipelineDecryptLoop(Reversed(self.cipher.ciphers), ciphertext)

(***************************************************************************)
(* DES and TripleDES objects: one is constructed from a key, with or       *)
(* without validate_key; single blocks are encrypted on it and the results *)
(* decrypted.  A constructor call that raised leaves a slot whose error is *)
(* the message: there is no object.                                        *)
(***************************************************************************)
MaxDES == 1

\* Keys as bytes (with a byte of odd parity, with every byte of even
\* parity, of 56 and of 72 bits) and as lists of binary values (64 with a
\* byte of odd parity, 64 with every byte of even parity, 63).
DESKeys ==
    {BytesObject(<<19, 52, 87, 121, 155, 188, 223, 240>>),
     BytesObject(<<3, 5, 6, 9, 10, 12, 15, 17>>),
     BytesObject(<<3, 5, 6, 9, 10, 12, 15>>),
     BytesObject(<<3, 5, 6, 9, 10, 12, 15, 17, 18>>),
     ListObject(Repeat(<<0>>, 63) \o <<1>>),
     ListObject(<<1, 1>> \o Repeat(<<0>>, 62)),
     ListObject(Repeat(<<0>>, 63))}

\* Keys of 128 bits (every byte of even parity; some bytes of odd parity),
\* of 120 and of 136 bits.
TripleDESKeys ==
    {BytesObject(<<3, 5, 6, 9, 10, 12, 15, 17, 18, 20, 23, 24, 27, 29, 30, 33>>),
     BytesObject(<<1, 2, 3, 4, 5, 6, 7, 8, 9, 10, 11, 12, 13, 14, 15, 16>>),
     BytesObject(<<3, 5, 6, 9, 10, 12, 15, 17, 18, 20, 23, 24, 27, 29, 30>>),
     BytesObject(<<3, 5, 6, 9, 10, 12, 15, 17, 18, 20, 23, 24, 27, 29, 30, 33, 34>>)}

\* Blocks of 64 and of 56 bits.
DESBlocks == {<<1, 35, 69, 103, 137, 171, 205, 239>>, <<1, 2, 3, 4, 5, 6, 7>>}

\* The bytes a call returned, or Raise for the exception it raised.
Returned(result) == IF result.type = "bytes" THEN result.data ELSE Raise

\* cipher = DES(key, validate_key)
NewDES(key, validate_key) ==
    /\ Len(instances) < MaxDES
    /\ instances' = Append(instances, DESInit(key, validate_key))
    /\ UNCHANGED <<calls, rk, wk, nr, nrk, modeVars>>

\* cipher = TripleDES(key, validate_key)
NewTripleDES(key, validate_key) ==
    /\ Len(instances) < MaxDES
    /\ instances' = Append(instances, TripleDESInit(key, validate_key))
    /\ UNCHANGED <<calls, rk, wk, nr, nrk, modeVars>>

\* y = cipher.encrypt(x)
DESEncryptOn(c, x) ==
    /\ instances[c].error = ""
    /\ Len(calls) < MaxBlocks
    /\ calls' = Append(calls,
                       [cipher |-> c, pt |-> x,
                        ct |-> Returned(IF instances[c].class = "DES"
                                        THEN DESEncrypt(instances[c], BytesObject(x))
                                        ELSE TripleDESEncrypt(instances[c],
                                                              BytesObject(x))),
                        rt |-> None])
    /\ UNCHANGED <<instances, rk, wk, nr, nrk, modeVars>>

\* cipher.decrypt(y) for the y of an earlier cipher.encrypt
DESDecryptOf(b) ==
    /\ calls[b].rt = None
    /\ calls[b].ct # Raise
    /\ calls' = [calls EXCEPT ![b].rt =
                    Returned(IF instances[calls[b].cipher].class = "DES"
                             THEN DESDecrypt(instances[calls[b].cipher],
                                             BytesObject(calls[b].ct))
                             ELSE TripleDESDecrypt(instances[calls[b].cipher],
                                                   BytesObject(calls[b].ct)))]
    /\ UNCHANGED <<instances, rk, wk, nr, nrk, modeVars>>

NextDES ==
    \/ \E key \in DESKeys, validate_key \in BOOLEAN : NewDES(key, validate_key)
    \/ \E key \in TripleDESKeys, validate_key \in BOOLEAN :
          NewTripleDES(key, validate_key)
    \/ \E c \in 1..Len(instances), x \in DESBlocks : DESEncryptOn(c, x)
    \/ \E b \in 1..Len(calls) : DESDecryptOf(b)

SpecDES == InitCipher /\ [][NextDES]_vars

\* The XOR of the 8 bits of byte k of a 64-bit key, given as bytes or as
\* binary values.
KeyByteXor(key, k) ==
    IF key.type = "bytes"
    THEN (key.data[k] + (key.data[k] \div 2) + (key.data[k] \div 4)
          + (key.data[k] \div 8) + (key.data[k] \div 16) + (key.data[k] \div 32)
          + (key.data[k] \div 64) + (key.data[k] \div 128)) % 2
    ELSE (key.data[8 * k - 7] + key.data[8 * k - 6] + key.data[8 * k - 5]
          + key.data[8 * k - 4] + key.data[8 * k - 3] + key.data[8 * k - 2]
          + key.data[8 * k - 1] + key.data[8 * k]) % 2

GeneratedRoundKeys(o) ==
    /\ o.error = ""
    /\ Len(o.round_keys) = 16
    /\ \A i \in 1..16 : input_size(o.round_keys[i]) = 48

\* C19: a DES key that is not exactly 64 bits is rejected whatever
\* validate_key is; with validate_key, round-key generation fails with the
\* parity error for every 64-bit key one of whose bytes has a non-zero XOR
\* of its 8 bits and gives the 16 round keys when every byte XORs to zero;
\* without validate_key it gives the 16 round keys whatever the parity.
C19_KeyParity ==
    \A c \in 1..Len(instances) :
       instances[c].class = "DES"
       => /\ input_size(instances[c].key) # 64
                => instances[c].error = "incorrect key size"
          /\ (/\ input_size(instances[c].key) = 64
              /\ instances[c].validate_key
              /\ \E k \in 1..8 : KeyByteXor(instances[c].key, k) # 0)
                => instances[c].error = "parity mismatch in possibly corrupted key"
          /\ (/\ input_size(instances[c].key) = 64
              /\ instances[c].validate_key
              /\ \A k \in 1..8 : KeyByteXor(instances[c].key, k) = 0)
                => GeneratedRoundKeys(instances[c])
          /\ (input_size(instances[c].key) = 64 /\ ~instances[c].validate_key)
                => GeneratedRoundKeys(instances[c])

\* The DES object of the n-th group of 8 bytes of the key of TripleDES c.
KeyHalf(c, n) ==
    DESInit(BytesObject(SubSeq(instances[c].key.data, 8 * n - 7, 8 * n)), FALSE)

\* E_K1(E_K2(E_K1(x))), D_K1(D_K2(D_K1(y))) and E_K1(D_K2(E_K1(x)))
EEE(k1, k2, x) == DESEncrypt(k1, DESEncrypt(k2, DESEncrypt(k1, x)))
DDD(k1, k2, y) == DESDecrypt(k1, DESDecrypt(k2, DESDecrypt(k1, y)))
EDE(k1, k2, x) == DESEncrypt(k1, DESDecrypt(k2, DESEncrypt(k1, x)))

IsTripleDES(c) == instances[c].class = "TripleDES" /\ instances[c].error = ""

\* C20: a TripleDES object of a 128-bit key holds the DES objects of K1,
\* K2, K1, with K1 the first and K2 the last 8 bytes of the key; encrypt of
\* a 64-bit block x is E_K1(E_K2(E_K1(x))), decrypt of the result y is
\* D_K1(D_K2(D_K1(y))), and that is x.
C20_TripleDES ==
    /\ \A c \in 1..Len(instances) :
          IsTripleDES(c)
          => /\ input_size(instances[c].key) = 128
             /\ Len(instances[c].cipher.ciphers) = 3
             /\ instances[c].cipher.ciphers[1].key.data
                   = SubSeq(instances[c].key.data, 1, 8)
             /\ instances[c].cipher.ciphers[2].key.data
                   = SubSeq(instances[c].key.data, 9, 16)
             /\ instances[c].cipher.ciphers[3] = instances[c].cipher.ciphers[1]
             /\ \A i \in 1..3 :
                   instances[c].cipher.ciphers[i].round_keys
                      = KeyHalf(c, IF i = 2 THEN 2 ELSE 1).round_keys
    /\ \A b \in 1..Len(calls) :
          (IsTripleDES(calls[b].cipher) /\ Len(calls[b].pt) * 8 = 64)
          => /\ calls[b].ct = Returned(EEE(KeyHalf(calls[b].cipher, 1),
                                           KeyHalf(calls[b].cipher, 2),
                                           BytesObject(calls[b].pt)))
             /\ calls[b].rt # None
                   => /\ calls[b].rt = Returned(DDD(KeyHalf(calls[b].cipher, 1),
                                                    KeyHalf(calls[b].cipher, 2),
                                                    BytesObject(calls[b].ct)))
                      /\ calls[b].rt = calls[b].pt

\* A 64-bit block encrypted on a TripleDES and decrypted again, where
\* E-D-E would have given another ciphertext.
C20_Witness ==
    /\ Len(calls) >= 1
    /\ IsTripleDES(calls[1].cipher)
    /\ Len(calls[1].pt) * 8 = 64
    /\ calls[1].ct # Raise
    /\ calls[1].rt = calls[1].pt
    /\ calls[1].ct # Returned(EDE(KeyHalf(calls[1].cipher, 1),
                                  KeyHalf(calls[1].cipher, 2),
                                  BytesObject(calls[1].pt)))

(***************************************************************************)
(* cipher/components as objects: a component is constructed from its       *)
(* table or key, and encrypt / decrypt are called on it with a bytes       *)
(* object, an int or a list of binary values.                              *)
(***************************************************************************)
\* StraightPBox(lookup_table, start), the table a permutation of
\* start .. start + len(lookup_table) - 1.
StraightPBoxInit(lookup_table, start) ==
    [class |-> "StraightPBox",
     lookup_table |-> LookupTable(lookup_table, start),
     inverse_lookup_table |->
         InverseLookupTable(LookupTable(lookup_table, start))]

\* StraightPBox.encrypt
StraightPBox_encrypt(self, plaintext) ==
    IF input_size(plaintext) # Len(self.lookup_table) THEN ErrorObject
    ELSE PBoxEncrypt(self.lookup_table, plaintext)

\* StraightPBox.decrypt
StraightPBox_decrypt(self, ciphertext) ==
    IF input_size(ciphertext) # Len(self.lookup_table) THEN ErrorObject
    ELSE PBoxEncrypt(self.inverse_lookup_table, ciphertext)

\* max(lookup_table)
RECURSIVE MaxOf(_)
MaxOf(table) ==
    IF Len(table) = 1 THEN table[1] ELSE Max(table[1], MaxOf(Tail(table)))

\* ExpansionPBox.__init__: inverse_lookup_table =
\* list(range(max(lookup_table) - start + 1)), then
\* inverse_lookup_table[position] = index for each entry in turn, so that
\* the last index of a position stays.
ExpansionInverseLookupTable(lookup_table) ==
    LET at(p) == {i \in 1..Len(lookup_table) : lookup_table[i] = p}
        n == MaxOf(lookup_table) + 1
    IN  SubSeq([p \in 1..n |->
                   IF at(p - 1) = {} THEN p - 1
                   ELSE (CHOOSE i \in at(p - 1) : \A j \in at(p - 1) : j <= i) - 1],
               1, n)

\* ExpansionPBox(lookup_table, start)
ExpansionPBoxInit(lookup_table, start) ==
    [class |-> "ExpansionPBox",
     lookup_table |-> LookupTable(lookup_table, start),
     inverse_lookup_table |->
         ExpansionInverseLookupTable(LookupTable(lookup_table, start))]

\* ExpansionPBox.encrypt
ExpansionPBox_encrypt(self, plaintext) ==
    PBoxEncrypt(self.lookup_table, plaintext)

\* ExpansionPBox.decrypt
ExpansionPBox_decrypt(self, ciphertext) ==
    PBoxEncrypt(self.inverse_lookup_table, ciphertext)

\* CompressionPBox(lookup_table, start)
CompressionPBoxInit(lookup_table, start) ==
    [class |-> "CompressionPBox",
     lookup_table |-> LookupTable(lookup_table, start)]

\* CompressionPBox.encrypt
CompressionPBox_encrypt(self, plaintext) ==
    PBoxEncrypt(self.lookup_table, plaintext)

\* A decrypt that hands its argument back.
DecryptAsNoOp(self, ciphertext) == ciphertext

\* CompressionPBox.decrypt: raise Exception(...)
CompressionPBox_decrypt(self, ciphertext) == ErrorObject

\* SBox(substitution_table, index_mapping = cell_index): the inverse table
\* is None whatever the arguments.
SBoxInit(substitution_table) ==
    [class |-> "SBox", substitution_table |-> substitution_table,
     inverse_subsitution_table |-> None]

\* SBox.encrypt: of a bytes chunk the table value in one byte, of an int the
\* table value; cell_index of a list of ints raises in ''.join(data).
SBox_encrypt(self, plaintext) ==
    IF plaintext.type = "bytes"
    THEN SBoxEncrypt(self.substitution_table, plaintext)
    ELSE IF plaintext.type = "int"
    THEN IntObject(BitsOf(self.substitution_table
                              [cell_index(BytesObject(<<IntOf(SubSeq(
                                   plaintext.data \o <<0, 0, 0, 0, 0, 0>>,
                                   1, 6))>>))[1] + 1]
                              [cell_index(BytesObject(<<IntOf(SubSeq(
                                   plaintext.data \o <<0, 0, 0, 0, 0, 0>>,
                                   1, 6))>>))[2] + 1],
                          4))
    ELSE ErrorObject

\* SBox.decrypt: raise ValueError(...)
SBox_decrypt(self, ciphertext) == ErrorObject

\* Swapper()
SwapperInit == [class |-> "Swapper"]

\* Swapper.encrypt: on bytes the low half moves above the high half, in
\* plaintext_half_size >> 2 bytes; on a list
\* plaintext[half:] + plaintext[:half]; an int cannot be sliced.
Swapper_encrypt(self, plaintext) ==
    LET plaintext_half_size == input_size(plaintext) \div 2
        bits == IntFromBytes(plaintext.data)
    IN  IF plaintext.type = "bytes"
        THEN BytesOrError(IntToBytes(
                 SubSeq(bits, plaintext_half_size + 1, Len(bits))
                     \o SubSeq(bits, 1, plaintext_half_size),
                 plaintext_half_size \div 4))
        ELSE IF plaintext.type = "list"
        THEN ListObject(SubSeq(plaintext.data, plaintext_half_size + 1,
                               Len(plaintext.data))
                        \o SubSeq(plaintext.data, 1, plaintext_half_size))
        ELSE ErrorObject

\* Swapper.decrypt: return self.encrypt(ciphertext)
Swapper_decrypt(self, ciphertext) == Swapper_encrypt(self, ciphertext)

\* XorKey(key)
XorKeyInit(key) ==
    [class |-> "XorKey", key |-> key, key_size |-> input_size(key)]

\* XorKey.encrypt
XorKey_encrypt(self, plaintext) == XorKeyEncrypt(self.key, plaintext)

\* XorKey.decrypt: return self.encrypt(ciphertext)
XorKey_decrypt(self, ciphertext) == XorKey_encrypt(self, ciphertext)

\* Pipeline(ciphers, order) over components
PipelineInit(ciphers, order) ==
    [class |-> "Pipeline", ciphers |-> ciphers, process_order |-> order]

\* HorizontalPipeline(ciphers, input_size, output_size), output_size = None
\* or 0 standing for input_size.
HorizontalPipelineObject(ciphers, in_size, out_size) ==
    LET output_size == IF out_size = NoLength \/ out_size = 0 THEN in_size
                       ELSE out_size
    IN  [class |-> "HorizontalPipeline", ciphers |-> ciphers,
         input_size |-> in_size, output_size |-> output_size,
         input_chunk_size |-> in_size \div Len(ciphers),
         output_chunk_size |-> output_size \div Len(ciphers)]

\* cipher.encrypt(plaintext) and cipher.decrypt(ciphertext) of whatever
\* class the component has.  An exception raised inside ends every caller:
\* the ErrorObject is handed on unchanged.
RECURSIVE Component_encrypt(_, _)
RECURSIVE Component_decrypt(_, _)
RECURSIVE Pipeline_encryptLoop(_, _, _)
RECURSIVE Pipeline_decryptLoop(_, _, _)

\* for cipher in ciphers: ciphertext = cipher.encrypt(ciphertext)
Pipeline_encryptLoop(ciphers, ciphertext, i) ==
    IF i > Len(ciphers) \/ ciphertext.type = "error" THEN ciphertext
    ELSE Pipeline_encryptLoop(ciphers, Component_encrypt(ciphers[i], ciphertext),
                              i + 1)

\* for cipher in ciphers: plaintext = cipher.decrypt(plaintext)
Pipeline_decryptLoop(ciphers, plaintext, i) ==
    IF i > Len(ciphers) \/ plaintext.type = "error" THEN plaintext
    ELSE Pipeline_decryptLoop(ciphers, Component_decrypt(ciphers[i], plaintext),
                              i + 1)

\* Pipeline.encrypt
Pipeline_encrypt(self, plaintext) ==
    Pipeline_encryptLoop(self.ciphers, plaintext, 1)

\* Pipeline.decrypt
Pipeline_decrypt(self, ciphertext) ==
    IF self.process_order = "ORIGINAL"
    THEN Pipeline_decryptLoop(self.ciphers, ciphertext, 1)
    ELSE Pipeline_decryptLoop(Reversed(self.ciphers), ciphertext, 1)

\* [cipher.encrypt(chunk) for cipher, chunk in zip(self.ciphers, chunks)]
ZipEncrypt(ciphers, chunks) ==
    SubSeq([i \in 1..Min(Len(ciphers), Len(chunks)) |->
               Component_encrypt(ciphers[i], chunks[i])],
           1, Min(Len(ciphers), Len(chunks)))

\* [cipher.decrypt(chunk) for cipher, chunk in zip(self.ciphers, chunks)]
ZipDecrypt(ciphers, chunks) ==
    SubSeq([i \in 1..Min(Len(ciphers), Len(chunks)) |->
               Component_decrypt(ciphers[i], chunks[i])],
           1, Min(Len(ciphers), Len(chunks)))

\* HorizontalPipeline.encrypt
HorizontalPipeline_encrypt(self, plaintext) ==
    IF input_size(plaintext) # self.input_size THEN ErrorObject
    ELSE n_ary_join(ZipEncrypt(self.ciphers,
                               n_ary_split(plaintext, self.input_chunk_size,
                                           self.input_size)),
                    self.output_chunk_size, self.output_size)

\* HorizontalPipeline.decrypt
HorizontalPipeline_decrypt(self, ciphertext) ==
    IF input_size(ciphertext) # self.output_size THEN ErrorObject
    ELSE n_ary_join(ZipDecrypt(self.ciphers,
                               n_ary_split(ciphertext, self.output_chunk_size,
                                           self.output_size)),
                    self.input_chunk_size, self.input_size)

Component_encrypt(self, plaintext) ==
    IF plaintext.type = "error" THEN plaintext
    ELSE CASE self.class = "StraightPBox" -> StraightPBox_encrypt(self, plaintext)
           [] self.class = "ExpansionPBox" -> ExpansionPBox_encrypt(self, plaintext)
           [] self.class = "CompressionPBox" ->
                  CompressionPBox_encrypt(self, plaintext)
           [] self.class = "SBox" -> SBox_encrypt(self, plaintext)
           [] self.class = "Swapper" -> Swapper_encrypt(self, plaintext)
           [] self.class = "XorKey" -> XorKey_encrypt(self, plaintext)
           [] self.class = "Pipeline" -> Pipeline_encrypt(self, plaintext)
           [] self.class = "HorizontalPipeline" ->
                  HorizontalPipeline_encrypt(self, plaintext)

Component_decrypt(self, ciphertext) ==
    IF ciphertext.type = "error" THEN ciphertext
    ELSE CASE self.class = "StraightPBox" -> StraightPBox_decrypt(self, ciphertext)
           [] self.class = "ExpansionPBox" -> ExpansionPBox_decrypt(self, ciphertext)
           [] self.class = "CompressionPBox" ->
                  CompressionPBox_decrypt(self, ciphertext)
           [] self.class = "SBox" -> SBox_decrypt(self, ciphertext)
           [] self.class = "Swapper" -> Swapper_decrypt(self, ciphertext)
           [] self.class = "XorKey" -> XorKey_decrypt(self, ciphertext)
           [] self.class = "Pipeline" -> Pipeline_decrypt(self, ciphertext)
           [] self.class = "HorizontalPipeline" ->
                  HorizontalPipeline_decrypt(self, ciphertext)

(***************************************************************************)
(* Components in use: one is constructed, encrypt and decrypt are called   *)
(* on it, and what an encrypt returned is handed to decrypt.               *)
(***************************************************************************)
MaxComponents == 1
MaxCalls == 1

\* No call made yet.
NoData == [type |-> "none", data |-> <<>>]

\* Permutations of 8 positions counted from 1 and from 0, and of 4.
StraightTables ==
    {<<<<2, 3, 4, 5, 6, 7, 8, 1>>, 1>>,
     <<<<3, 0, 2, 1, 7, 4, 6, 5>>, 0>>,
     <<<<2, 3, 4, 1>>, 1>>}

\* Expansions of 8 bits to 16 and of 4 bits to 8, every position taken twice.
ExpansionTables ==
    {<<<<8, 1, 2, 3, 4, 5, 6, 7, 8, 1, 2, 3, 4, 5, 6, 7>>, 1>>,
     <<<<3, 0, 1, 2, 3, 0, 1, 2>>, 0>>}

\* Compressions of 16 bits to 8 and of 8 bits to 4.
CompressionTables ==
    {<<<<2, 4, 6, 8, 10, 12, 14, 16>>, 1>>,
     <<<<7, 5, 3, 1>>, 0>>}

XorKeys ==
    {BytesObject(<<15>>), BytesObject(<<15, 240>>), IntObject(BitsOf(31, 8)),
     ListObject(<<1, 0, 1, 1>>), ListObject(<<1, 0, 0, 0, 0, 0, 0, 1>>)}

\* Pipelines and horizontal pipelines with and without a component that
\* has no inverse, alone, first, last and one level down.
Pipelines ==
    {PipelineInit(<<XorKeyInit(BytesObject(<<15, 240>>)),
                    CompressionPBoxInit(<<2, 4, 6, 8, 10, 12, 14, 16>>, 1)>>,
                  "NATURAL"),
     PipelineInit(<<XorKeyInit(BytesObject(<<15, 240>>)),
                    CompressionPBoxInit(<<2, 4, 6, 8, 10, 12, 14, 16>>, 1)>>,
                  "ORIGINAL"),
     PipelineInit(<<CompressionPBoxInit(<<2, 4, 6, 8, 10, 12, 14, 16>>, 1),
                    XorKeyInit(BytesObject(<<15>>))>>, "NATURAL"),
     PipelineInit(<<SBoxInit(SubstitutionTables[1])>>, "NATURAL"),
     PipelineInit(<<StraightPBoxInit(<<2, 3, 4, 5, 6, 7, 8, 1>>, 1),
                    XorKeyInit(BytesObject(<<15>>)), SwapperInit>>, "NATURAL"),
     PipelineInit(<<HorizontalPipelineObject(
                        <<XorKeyInit(BytesObject(<<15>>)),
                          SBoxInit(SubstitutionTables[2])>>, 16, NoLength),
                    SwapperInit>>, "NATURAL")}

HorizontalPipelines ==
    {HorizontalPipelineObject(<<SBoxInit(SubstitutionTables[1]),
                                SBoxInit(SubstitutionTables[2])>>, 16, NoLength),
     HorizontalPipelineObject(<<XorKeyInit(BytesObject(<<15>>)),
                                SBoxInit(SubstitutionTables[2])>>, 16, 16),
     HorizontalPipelineObject(<<XorKeyInit(ListObject(<<1, 0, 1, 1>>)),
                                CompressionPBoxInit(<<7, 5, 3, 1>>, 0)>>, 8, 8),
     HorizontalPipelineObject(<<XorKeyInit(BytesObject(<<15>>)),
                                StraightPBoxInit(<<2, 3, 4, 5, 6, 7, 8, 1>>, 1)>>,
                              16, NoLength)}

\* Bytes objects of 0 to 3 bytes, ints of one to four hex digits, lists of
\* 0 to 5 and of 8 binary values.
ComponentInputs ==
    {BytesObject(<<>>), BytesObject(<<129>>), BytesObject(<<5>>),
     BytesObject(<<18, 52>>), BytesObject(<<0, 1>>), BytesObject(<<18, 52, 86>>),
     IntObject(BitsOf(0, 4)), IntObject(BitsOf(5, 4)), IntObject(BitsOf(129, 8)),
     IntObject(BitsOf(16, 8)), IntObject(BitsOf(26, 8)), IntObject(BitsOf(21, 8)),
     IntObject(BitsOf(4660, 16)),
     ListObject(<<>>), ListObject(<<1>>), ListObject(<<1, 0>>),
     ListObject(<<1, 0, 0>>), ListObject(<<1, 1, 0, 1>>),
     ListObject(<<1, 0, 0, 0, 0>>), ListObject(<<1, 0, 0, 0, 0, 0, 1, 1>>)}

\* cipher = Class(...)
NewComponent(object) ==
    /\ Len(instances) < MaxComponents
    /\ instances' = Append(instances, object)
    /\ UNCHANGED <<calls, rk, wk, nr, nrk, modeVars>>

\* y = cipher.encrypt(x)
ComponentEncryptOn(c, x) ==
    /\ Len(calls) < MaxCalls
    /\ calls' = Append(calls, [cipher |-> c, op |-> "encrypt", x |-> x,
                               y |-> Component_encrypt(instances[c], x),
                               back |-> NoData])
    /\ UNCHANGED <<instances, rk, wk, nr, nrk, modeVars>>

\* y = cipher.decrypt(x)
ComponentDecryptOn(c, x) ==
    /\ Len(calls) < MaxCalls
    /\ calls' = Append(calls, [cipher |-> c, op |-> "decrypt", x |-> x,
                               y |-> Component_decrypt(instances[c], x),
                               back |-> NoData])
    /\ UNCHANGED <<instances, rk, wk, nr, nrk, modeVars>>

\* cipher.decrypt(y) for the y an earlier cipher.encrypt returned
ComponentDecryptOf(b) ==
    /\ calls[b].op = "encrypt"
    /\ calls[b].y.type # "error"
    /\ calls[b].back = NoData
    /\ calls' = [calls EXCEPT ![b].back =
                    Component_decrypt(instances[calls[b].cipher], calls[b].y)]
    /\ UNCHANGED <<instances, rk, wk, nr, nrk, modeVars>>

NextComponents ==
    \/ \E t \in StraightTables : NewComponent(StraightPBoxInit(t[1], t[2]))
    \/ \E t \in ExpansionTables : NewComponent(ExpansionPBoxInit(t[1], t[2]))
    \/ \E t \in CompressionTables : NewComponent(CompressionPBoxInit(t[1], t[2]))
    \/ NewComponent(SBoxInit(SubstitutionTables[1]))
    \/ NewComponent(SwapperInit)
    \/ \E key \in XorKeys : NewComponent(XorKeyInit(key))
    \/ \E p \in Pipelines : NewComponent(p)
    \/ \E p \in HorizontalPipelines : NewComponent(p)
    \/ \E c \in 1..Len(instances), x \in ComponentInputs : ComponentEncryptOn(c, x)
    \/ \E c \in 1..Len(instances), x \in ComponentInputs : ComponentDecryptOn(c, x)
    \/ \E b \in 1..Len(calls) : ComponentDecryptOf(b)

SpecComponents == InitCipher /\ [][NextComponents]_vars

(***************************************************************************)
(* Claims about the components.                                            *)
(***************************************************************************)
\* The n bits of a data object, bit 0 the most significant.
MSBBits(object, n) ==
    IF object.type = "list" THEN object.data
    ELSE SubSeq([i \in 1..n |-> Bit(BitsOfObject(object), n - i)], 1, n)

ComponentOf(b) == instances[calls[b].cipher]

\* C21: StraightPBox(table, start).encrypt places input bit table[i] - start
\* at output bit i, bit 0 the most significant; decrypt(encrypt(x)) = x for
\* every input x of len(table) bits, a bytes object, an int or a bit list;
\* encrypt and decrypt of an input of any other width raise.
C21_StraightPBox ==
    \A b \in 1..Len(calls) :
        LET self == ComponentOf(b)
            n == Len(self.lookup_table)
            x == calls[b].x
            y == calls[b].y
        IN  self.class = "StraightPBox" =>
                /\ input_size(x) # n => y.type = "error"
                /\ (calls[b].op = "encrypt" /\ input_size(x) = n) =>
                       /\ y.type = x.type
                       /\ \A i \in 1..n :
                              MSBBits(y, n)[i]
                                  = MSBBits(x, n)[self.lookup_table[i] + 1]
                       /\ calls[b].back # NoData => calls[b].back = x

\* C22: ExpansionPBox.encrypt returns len(table) bits, output bit i being
\* input bit table[i] - start, and with the inverse table built from the
\* last occurrence of each source position decrypt(encrypt(x)) = x for every
\* input x of the source width.
C22_ExpansionPBox ==
    \A b \in 1..Len(calls) :
        LET self == ComponentOf(b)
            n == Len(self.lookup_table)
            m == Len(self.inverse_lookup_table)
            x == calls[b].x
            y == calls[b].y
        IN  (/\ self.class = "ExpansionPBox"
             /\ calls[b].op = "encrypt"
             /\ input_size(x) = m) =>
                /\ y.type = x.type
                /\ \A i \in 1..n :
                       MSBBits(y, n)[i] = MSBBits(x, m)[self.lookup_table[i] + 1]
                /\ calls[b].back # NoData => calls[b].back = x

\* A component whose decrypt has no inverse to apply, or a pipeline that
\* holds one at any depth.
RECURSIVE NonInvertible(_)
NonInvertible(self) ==
    \/ self.class = "CompressionPBox"
    \/ self.class = "SBox" /\ self.inverse_subsitution_table = None
    \/ /\ self.class \in {"Pipeline", "HorizontalPipeline"}
       /\ \E i \in 1..Len(self.ciphers) : NonInvertible(self.ciphers[i])

\* C23: decrypt through a non-invertible component always raises and never
\* returns data: CompressionPBox.decrypt for every input, SBox.decrypt
\* without an inverse table, and the decrypt of every Pipeline and
\* HorizontalPipeline that contains such a component.
C23_NonInvertible ==
    \A b \in 1..Len(calls) :
        NonInvertible(ComponentOf(b)) =>
            /\ calls[b].op = "decrypt" => calls[b].y.type = "error"
            /\ calls[b].back # NoData => calls[b].back.type = "error"

\* A pipeline holding such a component has encrypted a block and the
\* decrypt of the result has raised.
C23_Witness ==
    \E b \in 1..Len(calls) :
        /\ ComponentOf(b).class \in {"Pipeline", "HorizontalPipeline"}
        /\ NonInvertible(ComponentOf(b))
        /\ calls[b].op = "encrypt"
        /\ calls[b].y.type = "bytes"
        /\ calls[b].back.type = "error"

\* C24: Swapper.encrypt exchanges the high half and the low half of its
\* input, halves taken by bit count, and keeps the width; it is its own
\* inverse, Swapper.decrypt(Swapper.encrypt(x)) = x for every bytes object
\* and every bit list x of any length.
C24_Swapper ==
    \A b \in 1..Len(calls) :
        LET x == calls[b].x
            y == calls[b].y
            n == input_size(x)
            half == n \div 2
        IN  (/\ ComponentOf(b).class = "Swapper"
             /\ calls[b].op = "encrypt"
             /\ x.type \in {"bytes", "list"}) =>
                /\ y.type = x.type
                /\ input_size(y) = n
                /\ MSBBits(y, n) = SubSeq(MSBBits(x, n), half + 1, n)
                                       \o SubSeq(MSBBits(x, n), 1, half)
                /\ calls[b].back # NoData => calls[b].back = x

\* C25: XorKey(k).encrypt(x) is x XOR k at the width of x for every x of the
\* width of k, and XorKey(k).decrypt(XorKey(k).encrypt(x)) = x, for bytes
\* objects, ints and bit lists alike; an x of another width raises, and so
\* does a bit list under a key that is none or a key that is a bit list
\* under data that is none.
C25_XorKey ==
    \A b \in 1..Len(calls) :
        LET self == ComponentOf(b)
            x == calls[b].x
            y == calls[b].y
            n == input_size(x)
        IN  (self.class = "XorKey" /\ calls[b].op = "encrypt") =>
                IF n # self.key_size \/ (x.type = "list") # (self.key.type = "list")
                THEN y.type = "error"
                ELSE /\ y.type = x.type
                     /\ input_size(y) = n
                     /\ \A i \in 1..n :
                            MSBBits(y, n)[i]
                                = (MSBBits(x, n)[i] + MSBBits(self.key, n)[i]) % 2
                     /\ calls[b].back # NoData => calls[b].back = x

(***************************************************************************)
(* cipher/utils.py in use: a data object is split, in two halves or in     *)
(* chunks of a stated width, and the parts are joined again.               *)
(***************************************************************************)
\* Bytes objects of 0 to 4 and of 7 bytes, with and without leading zero
\* bits, and lists of binary values.
SplitInputs ==
    {BytesObject(<<>>), BytesObject(<<18>>), BytesObject(<<18, 52>>),
     BytesObject(<<0, 52>>), BytesObject(<<1, 35, 69>>),
     BytesObject(<<0, 0, 1, 35>>),
     BytesObject(<<15, 255, 255, 240, 0, 0, 1>>),
     BytesObject(<<0, 16, 32, 48, 64, 80, 96>>),
     ListObject(<<1, 0, 1, 1>>), ListObject(<<1, 0, 0>>)}

\* The same and ints of 8 and 16 bits.
ChunkInputs ==
    SplitInputs \cup {IntObject(BitsOf(52, 8)), IntObject(BitsOf(4660, 16)),
                      IntObject(BitsOf(564, 16))}

\* The width in bits an int stands for in the calls below.
StatedSize(x) ==
    IF x.type = "int" THEN (IF Len(x.data) <= 8 THEN 8 ELSE 16)
    ELSE input_size(x)

ChunkSizes == {2, 4, 6, 8, 12, 16}

UtilCall(fn, x, chunk_size, chunks) ==
    [fn |-> fn, x |-> x, chunk_size |-> chunk_size, chunks |-> chunks,
     length |-> NoLength, joined |-> NoData]

\* left, right = binary_split(x)
BinarySplitOf(x) ==
    /\ Len(calls) < MaxCalls
    /\ calls' = Append(calls, UtilCall("binary", x, input_size(x) \div 2,
                                       binary_split(x)))
    /\ UNCHANGED <<instances, rk, wk, nr, nrk, modeVars>>

\* binary_join(left, right, length) of the halves of an earlier split
BinaryJoinOf(b, length) ==
    /\ calls[b].fn = "binary"
    /\ calls[b].joined = NoData
    /\ calls' = [calls EXCEPT ![b].length = length,
                              ![b].joined = binary_join(calls[b].chunks[1],
                                                        calls[b].chunks[2],
                                                        length)]
    /\ UNCHANGED <<instances, rk, wk, nr, nrk, modeVars>>

\* chunks = n_ary_split(x, chunk_size, data_size)
NarySplitOf(x, chunk_size) ==
    /\ Len(calls) < MaxCalls
    /\ calls' = Append(calls,
                       UtilCall("n_ary", x, chunk_size,
                                SubSeq(n_ary_split(x, chunk_size, StatedSize(x)),
                                       1, Len(n_ary_split(x, chunk_size,
                                                          StatedSize(x))))))
    /\ UNCHANGED <<instances, rk, wk, nr, nrk, modeVars>>

\* n_ary_join(chunks, chunk_size, data_size) of the chunks of an earlier
\* split, data_size given or left out
NaryJoinOf(b, data_size) ==
    /\ calls[b].fn = "n_ary"
    /\ calls[b].joined = NoData
    /\ calls' = [calls EXCEPT ![b].length = data_size,
                              ![b].joined = n_ary_join(calls[b].chunks,
                                                       calls[b].chunk_size,
                                                       data_size)]
    /\ UNCHANGED <<instances, rk, wk, nr, nrk, modeVars>>

NextUtils ==
    \/ \E x \in SplitInputs : BinarySplitOf(x)
    \/ \E b \in 1..Len(calls) :
          \E length \in {NoLength, input_size(calls[b].x) \div 2,
                         input_size(calls[b].x)} : BinaryJoinOf(b, length)
    \/ \E x \in ChunkInputs, chunk_size \in ChunkSizes : NarySplitOf(x, chunk_size)
    \/ \E b \in 1..Len(calls) :
          \E data_size \in {NoLength, StatedSize(calls[b].x)} :
              NaryJoinOf(b, data_size)

SpecUtils == InitCipher /\ [][NextUtils]_vars

(***************************************************************************)
(* Claims about the bit utilities.                                         *)
(***************************************************************************)
\* The halves binary_split returned are the high and the low half of x by
\* bit count, each in the fewest whole bytes.
HalvesOf(b) ==
    LET x == calls[b].x
        n == input_size(x)
        half == n \div 2
        left == calls[b].chunks[1]
        right == calls[b].chunks[2]
    IN  /\ left.type = "bytes" /\ right.type = "bytes"
        /\ Len(left.data) = byte_count(half)
        /\ Len(right.data) = byte_count(half)
        /\ \A i \in (half + 1)..(8 * byte_count(half)) :
               Bit(IntFromBytes(left.data), i - 1) = 0
               /\ Bit(IntFromBytes(right.data), i - 1) = 0
        /\ MSBBits(left, half) = SubSeq(MSBBits(x, n), 1, half)
        /\ MSBBits(right, half) = SubSeq(MSBBits(x, n), half + 1, n)

\* C26 as stated: binary_split(x) returns (high half, low half) by bit
\* count, and binary_join(l, r, len) with len the joined width reproduces x
\* bit for bit, leading zeros included, for every bytes object x, also when
\* the halves are not whole bytes.
C26_JoinedWidth ==
    \A b \in 1..Len(calls) :
        (calls[b].fn = "binary" /\ calls[b].x.type = "bytes") =>
            /\ HalvesOf(b)
            /\ (calls[b].joined # NoData
                /\ calls[b].length = input_size(calls[b].x)) =>
                   calls[b].joined = calls[b].x

\* C26 as amended: binary_split(x) returns (high half, low half) by bit
\* count, and binary_join(l, r, len) with len the width of one half, half
\* the joined width, reproduces x bit for bit, leading zeros included, for
\* every bytes object x, also when the halves are not whole bytes.
C26_HalfWidth ==
    \A b \in 1..Len(calls) :
        (calls[b].fn = "binary" /\ calls[b].x.type = "bytes") =>
            /\ HalvesOf(b)
            /\ (calls[b].joined # NoData
                /\ calls[b].length = input_size(calls[b].x) \div 2) =>
                   calls[b].joined = calls[b].x

\* A 56-bit object with leading zero bits has been split in halves of 28
\* bits and joined again with the length 28.
C26_Witness ==
    \E b \in 1..Len(calls) :
        /\ calls[b].fn = "binary"
        /\ calls[b].x = BytesObject(<<0, 16, 32, 48, 64, 80, 96>>)
        /\ calls[b].length = 28
        /\ calls[b].joined = calls[b].x

\* C27: n_ary_join is the inverse of n_ary_split: for every bytes object or
\* int x of n bits and every chunk width c dividing n, n_ary_split(x, c, n)
\* returns the n / c chunks, the highest first, and n_ary_join of those
\* chunks with the chunk width c, the total width given or left out,
\* returns x with its leading zero bits and its byte length.
C27_NarySplitJoin ==
    \A b \in 1..Len(calls) :
        LET x == calls[b].x
            n == StatedSize(x)
            c == calls[b].chunk_size
            chunks == calls[b].chunks
        IN  (/\ calls[b].fn = "n_ary"
             /\ x.type \in {"bytes", "int"}
             /\ n > 0
             /\ n % c = 0) =>
                /\ Len(chunks) = n \div c
                /\ \A i \in 1..Len(chunks) :
                       /\ chunks[i].type = x.type
                       /\ MSBBits(chunks[i], c)
                              = SubSeq(MSBBits(x, n), (i - 1) * c + 1, i * c)
                /\ calls[b].joined # NoData => calls[b].joined = x

(***************************************************************************)
(* cipher/speck.py.  A Python int is the sequence of its bits, least       *)
(* significant first, none above the highest bit set.                      *)
(***************************************************************************)
\* a & ((1 << n) - 1)
LowBits(a, n) == Trim(SubSeq(a, 1, Min(n, Len(a))))

\* a >> n
ShiftRight(a, n) == SubSeq(a, n + 1, Len(a))

\* a << n
ShiftLeft(a, n) == Trim(ShiftedLeft(a, n))

\* a + b, bit by bit with the carry
RECURSIVE AddCarry(_, _, _, _, _)
AddCarry(a, b, i, carry, sum) ==
    IF i >= Max(Len(a), Len(b)) \/ Len(sum) < 0
    THEN Trim(sum \o <<carry>>)
    ELSE AddCarry(a, b, i + 1, (Bit(a, i) + Bit(b, i) + carry) \div 2,
                  sum \o <<(Bit(a, i) + Bit(b, i) + carry) % 2>>)

AddBits(a, b) == AddCarry(a, b, 0, 0, <<>>)

\* (a - b) % (1 << n): a plus the two's complement of b at a width that
\* holds a, b and n bits, cut to n bits.
SubMod(a, b, n) ==
    LET width == Max(n, Max(Len(a), Len(b)))
        complement == SubSeq([p \in 1..width |-> 1 - Bit(b, p - 1)], 1, width)
    IN  LowBits(AddBits(AddBits(a, complement), <<1>>), n)

\* a ^ b of Python ints
XorInts(a, b) == Trim(XorBits(a, b))

\* The bits of a small integer.
RECURSIVE BitsOfInt(_)
BitsOfInt(v) == IF v = 0 THEN <<>> ELSE <<v % 2>> \o BitsOfInt(v \div 2)

\* SpeckCipher.__valid_setups: block_size, key_size, number of rounds
valid_setups ==
    {<<32, 64, 22>>, <<48, 72, 22>>, <<48, 96, 23>>, <<64, 96, 26>>,
     <<64, 128, 27>>, <<96, 96, 28>>, <<96, 144, 29>>, <<128, 128, 32>>,
     <<128, 192, 33>>, <<128, 256, 34>>}

\* The words encrypt_round computes, by the names it gives them.
encrypt_roundWords(self, x, y, k) ==
    LET rs_x == LowBits(AddBits(ShiftLeft(x, self.word_size - self.alpha_shift),
                                ShiftRight(x, self.alpha_shift)),
                        self.word_size)
        add_sxy == LowBits(AddBits(rs_x, y), self.word_size)
        new_x == XorInts(k, add_sxy)
        ls_y == LowBits(AddBits(ShiftRight(y, self.word_size - self.beta_shift),
                                ShiftLeft(y, self.beta_shift)),
                        self.word_size)
    IN  [rs_x |-> rs_x, add_sxy |-> add_sxy, new_x |-> new_x, ls_y |-> ls_y,
         new_y |-> XorInts(new_x, ls_y)]

\* An encrypt_round that returns the rotated y without mixing new_x into it.
encrypt_roundUnmixed(self, x, y, k) ==
    <<encrypt_roundWords(self, x, y, k).new_x,
      encrypt_roundWords(self, x, y, k).ls_y>>

\* SpeckCipher.encrypt_round
encrypt_round(self, x, y, k) ==
    <<encrypt_roundWords(self, x, y, k).new_x,
      encrypt_roundWords(self, x, y, k).new_y>>

\* The words decrypt_round computes, by the names it gives them.
decrypt_roundWords(self, x, y, k) ==
    LET xor_xy == XorInts(x, y)
        new_y == LowBits(AddBits(ShiftLeft(xor_xy,
                                           self.word_size - self.beta_shift),
                                 ShiftRight(xor_xy, self.beta_shift)),
                         self.word_size)
        xor_xk == XorInts(x, k)
        msub == SubMod(xor_xk, new_y, self.word_size)
        new_x == LowBits(AddBits(ShiftRight(msub,
                                            self.word_size - self.alpha_shift),
                                 ShiftLeft(msub, self.alpha_shift)),
                         self.word_size)
    IN  [xor_xy |-> xor_xy, new_y |-> new_y, xor_xk |-> xor_xk, msub |-> msub,
         new_x |-> new_x]

\* SpeckCipher.decrypt_round
decrypt_round(self, x, y, k) ==
    <<decrypt_roundWords(self, x, y, k).new_x,
      decrypt_roundWords(self, x, y, k).new_y>>

\* l_schedule = [(key >> (x * word_size)) & mod_mask
\*               for x in range(1, key_size // word_size)]
l_scheduleOf(key, key_size, word_size) ==
    SubSeq([x \in 1..((key_size \div word_size) - 1) |->
               LowBits(ShiftRight(key, x * word_size), word_size)],
           1, (key_size \div word_size) - 1)

\* for x in range(rounds - 1):
\*     new_l_k = encrypt_round(l_schedule[x], key_schedule[x], x)
\*     l_schedule.append(new_l_k[0]); key_schedule.append(new_l_k[1])
RECURSIVE key_scheduleLoop(_, _, _, _)
key_scheduleLoop(self, l_schedule, key_schedule, x) ==
    IF x >= self.rounds - 1 \/ Len(key_schedule) < 0 THEN key_schedule
    ELSE key_scheduleLoop(
             self,
             Append(l_schedule,
                    encrypt_round(self, l_schedule[x + 1], key_schedule[x + 1],
                                  BitsOfInt(x))[1]),
             Append(key_schedule,
                    encrypt_round(self, l_schedule[x + 1], key_schedule[x + 1],
                                  BitsOfInt(x))[2]),
             x + 1)

\* The object before its key schedule is compiled.
SpeckSetup(key, key_size, block_size, rounds) ==
    [block_size |-> block_size, word_size |-> block_size \div 2,
     key_size |-> key_size, rounds |-> rounds,
     beta_shift |-> IF block_size = 32 THEN 2 ELSE 3,
     alpha_shift |-> IF block_size = 32 THEN 7 ELSE 8,
     key |-> LowBits(key, key_size), key_schedule |-> <<>>, error |-> ""]

\* SpeckCipher(key, key_size, block_size): KeyError for a block size or a
\* key size that is no valid setup.
SpeckCipherInit(key, key_size, block_size) ==
    LET setups == {s \in valid_setups : s[1] = block_size /\ s[2] = key_size}
        rounds == (CHOOSE s \in setups : TRUE)[3]
        self == SpeckSetup(key, key_size, block_size, rounds)
    IN  IF setups = {}
        THEN [SpeckSetup(key, key_size, block_size, 0)
                  EXCEPT !.error = "KeyError"]
        ELSE [self EXCEPT !.key_schedule =
                 key_scheduleLoop(self,
                                  l_scheduleOf(self.key, key_size, self.word_size),
                                  <<LowBits(self.key, self.word_size)>>, 0)]


\* The body of the loop of encrypt_function: x and y after the round of k.
encrypt_functionBody(self, x, y, k) ==
    LET rs_x == LowBits(AddBits(ShiftLeft(x, self.word_size - self.alpha_shift),
                                ShiftRight(x, self.alpha_shift)),
                        self.word_size)
        add_sxy == LowBits(AddBits(rs_x, y), self.word_size)
        new_x == XorInts(k, add_sxy)
        ls_y == LowBits(AddBits(ShiftRight(y, self.word_size - self.beta_shift),
                                ShiftLeft(y, self.beta_shift)),
                        self.word_size)
    IN  <<new_x, XorInts(new_x, ls_y)>>

\* for k in self.key_schedule
RECURSIVE encrypt_functionLoop(_, _, _)
encrypt_functionLoop(self, words, i) ==
    IF i > Len(self.key_schedule) \/ Len(words) < 0 THEN words
    ELSE encrypt_functionLoop(
             self,
             encrypt_functionBody(self, words[1], words[2], self.key_schedule[i]),
             i + 1)

\* SpeckCipher.encrypt_function
encrypt_function(self, upper_word, lower_word) ==
    encrypt_functionLoop(self, <<upper_word, lower_word>>, 1)

\* The body of the loop of decrypt_function.
decrypt_functionBody(self, x, y, k) ==
    LET xor_xy == XorInts(x, y)
        new_y == LowBits(AddBits(ShiftLeft(xor_xy,
                                           self.word_size - self.beta_shift),
                                 ShiftRight(xor_xy, self.beta_shift)),
                         self.word_size)
        xor_xk == XorInts(x, k)
        msub == SubMod(xor_xk, new_y, self.word_size)
        new_x == LowBits(AddBits(ShiftRight(msub,
                                            self.word_size - self.alpha_shift),
                                 ShiftLeft(msub, self.alpha_shift)),
                         self.word_size)
    IN  <<new_x, new_y>>

\* for k in reversed(self.key_schedule)
RECURSIVE decrypt_functionLoop(_, _, _)
decrypt_functionLoop(self, words, i) ==
    IF i < 1 \/ Len(words) < 0 THEN words
    ELSE decrypt_functionLoop(
             self,
             decrypt_functionBody(self, words[1], words[2], self.key_schedule[i]),
             i - 1)

\* SpeckCipher.decrypt_function
decrypt_function(self, upper_word, lower_word) ==
    decrypt_functionLoop(self, <<upper_word, lower_word>>, Len(self.key_schedule))

\* SpeckCipher.encrypt of an int
SpeckCipher_encrypt(self, plaintext) ==
    LET b == LowBits(ShiftRight(plaintext, self.word_size), self.word_size)
        a == LowBits(plaintext, self.word_size)
        words == encrypt_function(self, b, a)
    IN  AddBits(ShiftLeft(words[1], self.word_size), words[2])

\* SpeckCipher.decrypt of an int
SpeckCipher_decrypt(self, ciphertext) ==
    LET b == LowBits(ShiftRight(ciphertext, self.word_size), self.word_size)
        a == LowBits(ciphertext, self.word_size)
        words == decrypt_function(self, b, a)
    IN  AddBits(ShiftLeft(words[1], self.word_size), words[2])


(***************************************************************************)
(* SPECK objects and the calls made on them.  instances holds the           *)
(* SpeckCipher objects constructed; calls holds one record per call: the    *)
(* words passed, the words returned, and what the decrypting counterpart   *)
(* returned for them once it has been called.                              *)
(***************************************************************************)
MaxSpeck == 1
MaxSpeckCalls == 1

\* A word of n bits with no simple structure.
PatternBits(n) ==
    Trim(SubSeq([i \in 1..n |-> IF (i * 7) % 5 < 2 THEN 1 ELSE 0], 1, n))

\* block_size and key_size of the objects constructed: one setup of each
\* block size, and two that are no valid setup.
SpeckSetups ==
    {<<32, 64>>, <<48, 96>>, <<64, 128>>, <<96, 144>>, <<128, 256>>,
     <<128, 100>>, <<40, 64>>}

\* Words of n bits: 0, 1, the largest, the top bit alone, and a pattern.
SpeckWords(n) ==
    {<<>>, <<1>>, Repeat(<<1>>, n), Repeat(<<0>>, n - 1) \o <<1>>, PatternBits(n)}

\* The blocks passed to encrypt_function, encrypt and decrypt.
SpeckBlocks(n) == {<<<<>>, <<1>>>>, <<Repeat(<<1>>, n), PatternBits(n)>>}

NoWords == <<>>

\* SpeckCipher(key, key_size, block_size)
NewSpeck(key, key_size, block_size) ==
    /\ Len(instances) < MaxSpeck
    /\ instances' = Append(instances, SpeckCipherInit(key, key_size, block_size))
    /\ UNCHANGED <<calls, rk, wk, nr, nrk, modeVars>>

\* cipher.encrypt_round(x, y, k)
EncryptRoundOn(c, x, y, k) ==
    /\ instances[c].error = ""
    /\ Len(calls) < MaxSpeckCalls
    /\ calls' = Append(calls, [cipher |-> c, op |-> "encrypt_round",
                               x |-> x, y |-> y, k |-> k,
                               out |-> encrypt_round(instances[c], x, y, k),
                               back |-> NoWords])
    /\ UNCHANGED <<instances, rk, wk, nr, nrk, modeVars>>

\* cipher.decrypt_round(*out, k) for the out an encrypt_round returned
DecryptRoundOf(b) ==
    /\ calls[b].op = "encrypt_round"
    /\ calls[b].back = NoWords
    /\ calls' = [calls EXCEPT ![b].back =
                    decrypt_round(instances[calls[b].cipher], calls[b].out[1],
                                  calls[b].out[2], calls[b].k)]
    /\ UNCHANGED <<instances, rk, wk, nr, nrk, modeVars>>

\* cipher.encrypt_function(x, y)
EncryptFunctionOn(c, x, y) ==
    /\ instances[c].error = ""
    /\ Len(calls) < MaxSpeckCalls
    /\ calls' = Append(calls, [cipher |-> c, op |-> "encrypt_function",
                               x |-> x, y |-> y, k |-> NoWords,
                               out |-> encrypt_function(instances[c], x, y),
                               back |-> NoWords])
    /\ UNCHANGED <<instances, rk, wk, nr, nrk, modeVars>>

\* cipher.decrypt_function(*out) for the out an encrypt_function returned
DecryptFunctionOf(b) ==
    /\ calls[b].op = "encrypt_function"
    /\ calls[b].back = NoWords
    /\ calls' = [calls EXCEPT ![b].back =
                    decrypt_function(instances[calls[b].cipher],
                                     calls[b].out[1], calls[b].out[2])]
    /\ UNCHANGED <<instances, rk, wk, nr, nrk, modeVars>>

\* cipher.encrypt(plaintext) of the int (x << word_size) + y
SpeckEncryptOn(c, x, y) ==
    /\ instances[c].error = ""
    /\ Len(calls) < MaxSpeckCalls
    /\ calls' = Append(calls,
           [cipher |-> c, op |-> "encrypt", x |-> x, y |-> y, k |-> NoWords,
            out |-> <<SpeckCipher_encrypt(
                          instances[c],
                          AddBits(ShiftLeft(x, instances[c].word_size), y))>>,
            back |-> NoWords])
    /\ UNCHANGED <<instances, rk, wk, nr, nrk, modeVars>>

\* cipher.decrypt(out) for the out an encrypt returned
SpeckDecryptOf(b) ==
    /\ calls[b].op = "encrypt"
    /\ calls[b].back = NoWords
    /\ calls' = [calls EXCEPT ![b].back =
                    <<SpeckCipher_decrypt(instances[calls[b].cipher],
                                          calls[b].out[1])>>]
    /\ UNCHANGED <<instances, rk, wk, nr, nrk, modeVars>>

NextSpeck ==
    \/ \E s \in SpeckSetups : NewSpeck(PatternBits(s[2]), s[2], s[1])
    \/ \E c \in 1..Len(instances) :
           \E x, y, k \in SpeckWords(instances[c].word_size) :
               EncryptRoundOn(c, x, y, k)
    \/ \E b \in 1..Len(calls) : DecryptRoundOf(b)
    \/ \E c \in 1..Len(instances) :
           \E w \in SpeckBlocks(instances[c].word_size) :
               EncryptFunctionOn(c, w[1], w[2])
    \/ \E b \in 1..Len(calls) : DecryptFunctionOf(b)
    \/ \E c \in 1..Len(instances) :
           \E w \in SpeckBlocks(instances[c].word_size) :
               SpeckEncryptOn(c, w[1], w[2])
    \/ \E b \in 1..Len(calls) : SpeckDecryptOf(b)

SpecSpeck == InitCipher /\ [][NextSpeck]_vars

(***************************************************************************)
(* Claims about SPECK.                                                     *)
(***************************************************************************)
\* The words of the two rounds of call b, as encrypt_round and decrypt_round
\* computed them.
RoundWordsOf(b) ==
    LET self == instances[calls[b].cipher]
        e == encrypt_roundWords(self, calls[b].x, calls[b].y, calls[b].k)
        d == decrypt_roundWords(self, calls[b].out[1], calls[b].out[2],
                                calls[b].k)
    IN  {e.rs_x, e.add_sxy, e.new_x, e.ls_y, e.new_y,
         d.xor_xy, d.new_y, d.xor_xk, d.msub, d.new_x}

\* The w-bit word rotated right by n: bit i of the result is bit i + n of
\* the word, counted modulo w.
RotatedRight(word, n, w) ==
    Trim(SubSeq([p \in 1..w |-> Bit(word, (p - 1 + n) % w)], 1, w))

\* C28: for every supported word size w and w-bit words x, y, k,
\* decrypt_round(encrypt_round(x, y, k), k) returns (x, y); encrypt_round
\* rotates x right by alpha and y left by beta, every word the two rounds
\* compute stays within w bits, and decrypt_function returns the words that
\* encrypt_function was given.
C28_SpeckRounds ==
    \A b \in 1..Len(calls) :
        /\ (calls[b].op = "encrypt_round" /\ calls[b].back # NoWords) =>
               LET self == instances[calls[b].cipher]
                   e == encrypt_roundWords(self, calls[b].x, calls[b].y,
                                           calls[b].k)
               IN
               /\ e.rs_x = RotatedRight(calls[b].x, self.alpha_shift,
                                        self.word_size)
               /\ e.ls_y = RotatedRight(calls[b].y,
                                        self.word_size - self.beta_shift,
                                        self.word_size)
               /\ calls[b].back = <<calls[b].x, calls[b].y>>
               /\ \A word \in RoundWordsOf(b) :
                      Len(word) <= instances[calls[b].cipher].word_size
        /\ (calls[b].op = "encrypt_function" /\ calls[b].back # NoWords) =>
               calls[b].back = <<calls[b].x, calls[b].y>>

\* A round of 64-bit words whose addition wrapped around 2^64 has been
\* undone, and so has an encryption of 34 rounds.
C28_Witness ==
    \E b \in 1..Len(calls) :
        LET self == instances[calls[b].cipher]
        IN  /\ self.word_size = 64
            /\ calls[b].back = <<calls[b].x, calls[b].y>>
            /\ \/ /\ calls[b].op = "encrypt_round"
                  /\ calls[b].x = Repeat(<<1>>, 64)
                  /\ calls[b].y = <<1>>
                  /\ calls[b].out # <<calls[b].x, calls[b].y>>
               \/ /\ calls[b].op = "encrypt_function"
                  /\ Len(self.key_schedule) = 34
                  /\ calls[b].out # <<calls[b].x, calls[b].y>>


(***************************************************************************)
(* One mode instance driven twice over the same input, once with           *)
(* debug=True and once with debug=False: a message is encrypted to the end *)
(* by both calls, and the ciphertext is then decrypted by both.            *)
(***************************************************************************)
\* gen_debug = mode.<op>(blocks, debug=True); gen = mode.<op>(blocks): two
\* block iterators over the same bytes.
CallBoth(op, data, of) ==
    /\ gens' = gens \o <<NewGenerator(1, op, TRUE, data, of),
                         NewGenerator(1, op, FALSE, data, of)>>
    /\ UNCHANGED <<padding, modes, cipherVars>>

\* list(gen): a generator is advanced once those obtained before it are
\* finished.
StepInTurn(k) ==
    /\ \A j \in 1..(k - 1) : Finished(gens[j])
    /\ Step(k)

NextDebug ==
    \/ \E data \in Messages : gens = <<>> /\ CallBoth("encrypt", data, 0)
    \/ /\ Len(gens) = 2
       /\ gens[1].pc = "done" /\ gens[2].pc = "done"
       /\ CallBoth("decrypt", Flatten(gens[2].out), 2)
    \/ \E k \in 1..Len(gens) : StepInTurn(k)

SpecDebug == InitStream /\ [][NextDebug]_vars

\* C29: for every mode, padding strategy and input, the 'encrypted' fields
\* yielded by encrypt(debug=True) are the blocks yielded by
\* encrypt(debug=False), and the 'unpadded' fields yielded by
\* decrypt(debug=True) are the blocks yielded by decrypt(debug=False), none
\* missing from either.
C29_DebugStream ==
    \A i, j \in 1..Len(gens) :
        (/\ gens[i].debug /\ ~gens[j].debug
         /\ gens[i].op = gens[j].op /\ gens[i].data = gens[j].data
         /\ Finished(gens[i]) /\ Finished(gens[j]))
        => gens[i].out = gens[j].out

(***************************************************************************)
(* Driving a generator to completion.                                      *)
(***************************************************************************)
\* The block iterator handed to a call yields blocks the mode can take:
\* without padding, a whole number of blocks.
WholeInput(g) ==
    ModeOf(g).padding_mode = "PAD_NONE"
    => Len(g.data) % (ModeOf(g).block_size \div 8) = 0

\* The blocks pulled so far are the first blocks of the input, each once, and
\* the blocks put out so far follow their order: an encrypt has transformed
\* the bytes of a prefix of its input, a decrypt the first blocks of its own.
InOrder(g) ==
    LET blocks == block_generator(g.data, ModeOf(g).block_size)
    IN  /\ \E n \in 0..Len(blocks) : g.src = SubSeq(blocks, n + 1, Len(blocks))
        /\ Len(g.out) <= Len(g.trace)
        /\ IF g.op = "encrypt"
           THEN IsPrefix(Flatten([i \in 1..Len(g.trace) |-> g.trace[i].original]),
                         g.data)
           ELSE \A i \in 1..Len(g.trace) : g.trace[i].encrypted = blocks[i]

\* A bound on the next() calls a generator can still answer before it is
\* finished: two for every block not yet pulled, and the steps its pad /
\* unpad generator has left from its position.
StepsLeft(g) ==
    IF Finished(g) THEN 0
    ELSE 1 + 2 * Len(g.src)
           + CASE g.pad.pc = "init" -> 4
               [] g.pad.pc = "loop" -> 3
               [] g.pad.pc = "tail" -> 2
               [] g.pad.pc = "last" -> 1
               [] OTHER -> 0

\* C30: for every finite input block iterator, the empty one included,
\* driving encrypt or decrypt to completion terminates: the input blocks are
\* pulled once each and in order, the output follows the input order, no
\* call raises, and every next() brings the generator closer to its end, so
\* that it is exhausted after finitely many.
C30_Termination ==
    /\ [](\A k \in 1..Len(gens) :
             WholeInput(gens[k]) => InOrder(gens[k]) /\ gens[k].pc # "raised")
    /\ [][\A k \in 1..Len(gens) :
             gens'[k] # gens[k] => StepsLeft(gens'[k]) < StepsLeft(gens[k])]_vars
====
